---- MODULE Spec2Model ----
(***************************************************************************)
(* Model of the Bedrock model-comparison engine: BedrockEvaluator          *)
(* (src/src/evaluator.py), the token estimator (src/src/tokenizers.py) and *)
(* the Stopwatch (src/src/utils/timing.py).                                *)
(*                                                                         *)
(* Representation choices                                                  *)
(*  - a text (prompt, response) is a sequence of one-character strings;    *)
(*  - a model identifier is a sequence of chunks, e.g.                     *)
(*    <<"us.", "claude", ":", "1">> is "us.claude:1"; substring tests of   *)
(*    the code ("us." in id, id.startswith("us.")) are chunk tests;        *)
(*  - a Python error string is the set of marker substrings it contains    *)
(*    together with the identifiers formatted into it;                     *)
(*  - money is counted in micro-dollars (1e-6 USD), prices in micro-dollars*)
(*    per 1000 tokens, so tokens * price is the unrounded cost in          *)
(*    nano-dollars; round(x, 6) rounds nano-dollars to micro-dollars;      *)
(*  - Python None is the record NoneVal for structured values and the      *)
(*    string "None" for tri-state flags.                                   *)
(* tiktoken is an optional import that setup.py does not install: the      *)
(* model is of the build in which tokenizers.tiktoken is None.             *)
(***************************************************************************)
EXTENDS Integers, Sequences, FiniteSets, TLC

VARIABLES
    region,             \* BedrockEvaluator.region_name
    models,             \* the model descriptors handed to the batch
    prompts,            \* the rows of prompts_df
    remote,             \* what the remote endpoint may answer in this run
    pi,                 \* index of the current prompt row
    mi,                 \* index of the current model
    pc,                 \* "batch" | "attempt" | "done" | "raised"
    all_metrics,        \* evaluate_prompts_batch.all_metrics
    input_tokens,       \* evaluate_prompt: the step-1 estimate
    model_id_variants,  \* the variant queue of the call in flight
    vi,                 \* position of the for loop in model_id_variants
    last_error,         \* _invoke_*: last_error
    timer_start,        \* Stopwatch.start
    now,                \* the wall clock read by now_ms()
    tried,              \* history: the identifiers invoked by the current call
    obs,                \* history: what was observed of the current call
    built,              \* history: per call, the model index and its initial queue
    pieces,             \* history: the parts a validated text was written from
    response_text,      \* _validate_json_with_cleaning: its argument, text
    verdict,            \* _validate_json_with_cleaning: what it returned
    raw_metrics_df,     \* generate_report: the records handed to it
    agg_df,             \* generate_report: whether it returned, and the summary rows
    tuple_keys,         \* the pandas of the build yields 1-tuples as keys of a
                        \* groupby by a list of one column (pandas 2.0 and later)
    prompts_df,         \* run_evaluation.main: the prompt rows, each with its id
                        \* and whether its prompt is empty
    at,                 \* main: "loop" | "call" | "save" | "saved" | "done" | "exit"
    row_idx,            \* main: index of the row of the outer for loop
    model_idx,          \* main: index of the model of the inner for loop
    collected,          \* main: its list all_metrics
    raw_csv,            \* raw_metrics.csv: whether it exists, and its rows
    interrupted         \* history: where main was when KeyboardInterrupt was raised

\* the state of a validator called on its own
validator == <<pieces, response_text, verdict>>

\* the state of a report generator called on its own
report == <<raw_metrics_df, agg_df, tuple_keys>>

\* the state of the evaluator
engine == <<region, models, prompts, remote, pi, mi, pc, all_metrics, input_tokens,
            model_id_variants, vi, last_error, timer_start, now, tried, obs, built>>

\* the state of the driver script
driver == <<prompts_df, at, row_idx, model_idx, collected, raw_csv, interrupted>>

vars == <<engine, validator, report, driver>>

(***************************************************************************)
(* Bounds of the model.                                                    *)
(***************************************************************************)
MaxDur == 2        \* a remote invocation takes 1..MaxDur ms
MaxFollow == 1     \* the follow-up CountTokens call takes 0..MaxFollow ms

(***************************************************************************)
(* Python values.                                                          *)
(***************************************************************************)
NoneVal == [kind |-> "None"]

Get(rec, key, default) == IF key \in DOMAIN rec THEN rec[key] ELSE default

Max(a, b) == IF a < b THEN b ELSE a

(***************************************************************************)
(* Texts.                                                                  *)
(***************************************************************************)
NaN == <<"<NaN>">>     \* pandas' missing value in a prompt cell: truthy, not a str

IsSpace(c) == c \in {" ", "\n", "\t", "\r"}

\* len(text)
Chars(t) == Len(t)

\* len(text.split())
Words(t) == Cardinality({i \in DOMAIN t : ~IsSpace(t[i]) /\ (i = 1 \/ IsSpace(t[i - 1]))})

RECURSIVE LStrip(_)
LStrip(t) == IF t # <<>> /\ IsSpace(Head(t)) THEN LStrip(Tail(t)) ELSE t

RECURSIVE RStrip(_)
RStrip(t) == IF t # <<>> /\ IsSpace(t[Len(t)]) THEN RStrip(SubSeq(t, 1, Len(t) - 1)) ELSE t

\* text.strip()
StripText(t) == RStrip(LStrip(t))

(***************************************************************************)
(* json.loads on a text: a recursive-descent recognizer.  Each Parse*      *)
(* operator takes the position of the first unread character and returns   *)
(* the position after what it read, or 0 when the text is malformed.       *)
(***************************************************************************)
Digits == {"0", "1", "2", "3", "4", "5", "6", "7", "8", "9"}

At(t, i) == IF i >= 1 /\ i <= Len(t) THEN t[i] ELSE "<eof>"

RECURSIVE SkipWs(_, _)
SkipWs(t, i) == IF IsSpace(At(t, i)) THEN SkipWs(t, i + 1) ELSE i

MatchAt(t, i, w) == i + Len(w) - 1 <= Len(t) /\ SubSeq(t, i, i + Len(w) - 1) = w

RECURSIVE SkipDigits(_, _)
SkipDigits(t, i) == IF At(t, i) \in Digits THEN SkipDigits(t, i + 1) ELSE i

\* the body of a string, after its opening quote
RECURSIVE ParseString(_, _)
ParseString(t, i) ==
    LET c == At(t, i) IN
    IF c = "<eof>" \/ c \in {"\n", "\t", "\r"} THEN 0
    ELSE IF c = "\"" THEN i + 1
    ELSE IF c = "\\"
         THEN IF At(t, i + 1) \in {"\"", "\\", "/", "b", "f", "n", "r", "t"}
              THEN ParseString(t, i + 2) ELSE 0
    ELSE ParseString(t, i + 1)

ParseNumber(t, i) ==
    LET s == IF At(t, i) = "-" THEN i + 1 ELSE i
        e == IF At(t, s) = "0" THEN s + 1
             ELSE IF At(t, s) \in Digits THEN SkipDigits(t, s) ELSE 0
        f == IF e # 0 /\ At(t, e) = "." /\ At(t, e + 1) \in Digits
             THEN SkipDigits(t, e + 1) ELSE e
        x == IF f # 0 /\ At(t, f) \in {"e", "E"}
             THEN (IF At(t, f + 1) \in {"+", "-"} THEN f + 2 ELSE f + 1) ELSE 0
    IN  IF x # 0 /\ At(t, x) \in Digits THEN SkipDigits(t, x) ELSE f

RECURSIVE ParseValue(_, _), ParseMembers(_, _), ParseElements(_, _)
ParseValue(t, i) ==
    LET c == At(t, i) IN
    IF c = "{" THEN (LET j == SkipWs(t, i + 1)
                     IN  IF At(t, j) = "}" THEN j + 1 ELSE ParseMembers(t, j))
    ELSE IF c = "[" THEN (LET j == SkipWs(t, i + 1)
                          IN  IF At(t, j) = "]" THEN j + 1 ELSE ParseElements(t, j))
    ELSE IF c = "\"" THEN ParseString(t, i + 1)
    ELSE IF MatchAt(t, i, <<"t", "r", "u", "e">>) THEN i + 4
    ELSE IF MatchAt(t, i, <<"f", "a", "l", "s", "e">>) THEN i + 5
    ELSE IF MatchAt(t, i, <<"n", "u", "l", "l">>) THEN i + 4
    ELSE IF MatchAt(t, i, <<"N", "a", "N">>) THEN i + 3
    ELSE IF MatchAt(t, i, <<"I", "n", "f", "i", "n", "i", "t", "y">>) THEN i + 8
    ELSE IF MatchAt(t, i, <<"-", "I", "n", "f", "i", "n", "i", "t", "y">>) THEN i + 9
    ELSE ParseNumber(t, i)

ParseMembers(t, i) ==
    IF At(t, i) # "\"" THEN 0
    ELSE LET k == ParseString(t, i + 1)
             c == IF k = 0 THEN 0 ELSE SkipWs(t, k)
             v == IF c # 0 /\ At(t, c) = ":" THEN ParseValue(t, SkipWs(t, c + 1)) ELSE 0
             e == IF v = 0 THEN 0 ELSE SkipWs(t, v)
         IN  IF e = 0 THEN 0
             ELSE IF At(t, e) = "}" THEN e + 1
             ELSE IF At(t, e) = "," THEN ParseMembers(t, SkipWs(t, e + 1))
             ELSE 0

ParseElements(t, i) ==
    LET v == ParseValue(t, i)
        e == IF v = 0 THEN 0 ELSE SkipWs(t, v)
    IN  IF e = 0 THEN 0
        ELSE IF At(t, e) = "]" THEN e + 1
        ELSE IF At(t, e) = "," THEN ParseElements(t, SkipWs(t, e + 1))
        ELSE 0

\* json.loads(t) does not raise
JsonLoads(t) ==
    LET i == SkipWs(t, 1)
        e == ParseValue(t, i)
    IN  e # 0 /\ SkipWs(t, e) = Len(t) + 1

(***************************************************************************)
(* Token estimation (tokenizers.py with tiktoken = None).                  *)
(***************************************************************************)
\* int((chars / 4) + (words * 0.25))
HeuristicCountAnthropic(t) == (Chars(t) + Words(t)) \div 4

\* int((chars / 3.5) + (words * 0.3))
HeuristicCountLlama(t) == (20 * Chars(t) + 21 * Words(t)) \div 70

\* max(1, int((chars / 4) * 0.7 + (words * 1.3) * 0.3)), 0 for empty text
HeuristicCount(t) ==
    IF t = <<>> THEN 0 ELSE Max(1, (175 * Chars(t) + 390 * Words(t)) \div 1000)

\* count_tokens raises AttributeError: model_tokenizer.lower() on None,
\* text.split() on a float
CountTokensRaises(tokenizer, t) == tokenizer = "None" \/ t = NaN

CountTokens(tokenizer, t) ==
    IF tokenizer = "anthropic" THEN HeuristicCountAnthropic(t)
    ELSE IF tokenizer \in {"llama", "qwen", "alibaba"} THEN HeuristicCountLlama(t)
    ELSE HeuristicCount(t)

(***************************************************************************)
(* Model identifiers and the variant queue.                                *)
(***************************************************************************)
Contains(id, chunk) == \E i \in DOMAIN id : id[i] = chunk

StartsWith(id, chunk) == id # <<>> /\ id[1] = chunk

\* model_id.rsplit(":", 1)[0] if ":" in model_id else model_id
WithoutSuffix(id) ==
    IF Contains(id, ":")
    THEN LET k == CHOOSE i \in DOMAIN id :
                      id[i] = ":" /\ \A j \in DOMAIN id : id[j] = ":" => j <= i
         IN  SubSeq(id, 1, k - 1)
    ELSE id

\* f"us.{id}"
UsPrefixed(id) == <<"us.">> \o id

\* list(dict.fromkeys(xs)): first occurrences, in order
RECURSIVE DedupFrom(_, _)
DedupFrom(seen, xs) ==
    IF xs = <<>> THEN seen
    ELSE IF \E i \in DOMAIN seen : seen[i] = Head(xs) THEN DedupFrom(seen, Tail(xs))
    ELSE DedupFrom(Append(seen, Head(xs)), Tail(xs))

\* the same list with nothing removed
DedupKeepsAll(xs) == xs

Dedup(xs) == DedupFrom(<<>>, xs)

\* the "already an inference profile" test of both protocols
TreatedAsProfile(id, use_inference_profile) ==
    use_inference_profile \/ Contains(id, "us.") \/ Contains(id, "global.")

\* _invoke_converse, lines 244-264
ConverseVariants(id, use_inference_profile, reg) ==
    Dedup(IF TreatedAsProfile(id, use_inference_profile) THEN <<id>>
          ELSE (IF reg = "us-east-2"
                THEN <<UsPrefixed(id), UsPrefixed(WithoutSuffix(id)) \o <<":", "0">>>>
                ELSE <<>>)
               \o <<id, WithoutSuffix(id)>>)

\* the single-turn queue built as the chat-style one
DirectVariantsAsConverse(id, provider, use_inference_profile, reg) ==
    ConverseVariants(id, use_inference_profile, reg)

\* _invoke_model_direct, lines 379-400
DirectVariants(id, provider, use_inference_profile, reg) ==
    Dedup(IF TreatedAsProfile(id, use_inference_profile) THEN <<id>>
          ELSE (IF reg = "us-east-2"
                THEN <<UsPrefixed(id), UsPrefixed(WithoutSuffix(id)) \o <<":", "0">>>>
                ELSE <<>>)
               \o <<id>>
               \o (IF provider = "meta" \/ Contains(id, "llama")
                   THEN (IF WithoutSuffix(id) # id THEN <<WithoutSuffix(id)>> ELSE <<>>)
                        \o (IF ~Contains(id, ":") THEN <<id \o <<":", "0">>>> ELSE <<>>)
                   ELSE <<>>))

\* _invoke_model: the chat-style protocol is chosen for these descriptors
UsesConverse(m) ==
    m.provider = "anthropic" \/ Contains(m.bedrock_model_id, "claude")
        \/ Contains(m.bedrock_model_id, "nova")

BuildVariants(m, reg) ==
    IF UsesConverse(m)
    THEN ConverseVariants(m.bedrock_model_id, m.use_inference_profile, reg)
    ELSE DirectVariants(m.bedrock_model_id, m.provider, m.use_inference_profile, reg)

(***************************************************************************)
(* Remote errors and the error strings built from them.                    *)
(* A remote error is a botocore ClientError (client = TRUE, with its       *)
(* Error.Code and the markers its Error.Message contains) or any other     *)
(* exception of the transport (client = FALSE, the markers of str(e)).     *)
(***************************************************************************)
ClientErr(code, marks) == [client |-> TRUE, code |-> code, marks |-> marks]

OtherErr(marks) == [client |-> FALSE, code |-> "", marks |-> marks]

\* an error string: the marker substrings it contains, the identifier
\* formatted into it and the "All attempted model IDs" list
ErrStr(has, id, attempted) == [has |-> has, tried |-> id, attempted |-> attempted]

\* "inference profile" in s.lower() or "on-demand throughput" in s.lower()
MentionsProfile(marks) == marks \cap {"inference profile", "on-demand throughput"} # {}

\* the alias appended whatever the failing identifier and the queue hold
AppendAliasAlways(queue, variant_id) == Append(queue, UsPrefixed(variant_id))

\* lines 339-343, 355-358, 415-418, 429-432
AppendAlias(queue, variant_id) ==
    IF ~StartsWith(variant_id, "us.") /\ ~StartsWith(variant_id, "global.")
           /\ ~(\E i \in DOMAIN queue : queue[i] = UsPrefixed(variant_id))
    THEN Append(queue, UsPrefixed(variant_id))
    ELSE queue

\* the remediation text of lines 319-332
EntitlementText(variant_id) ==
    ErrStr({"Bedrock API error", "ResourceNotFoundException", "use case details",
            "TO FIX THIS ERROR"}, variant_id, <<>>)

Raise(le, queue) == [raise |-> TRUE, last_error |-> le, queue |-> queue]

Continue(le, queue) == [raise |-> FALSE, last_error |-> le, queue |-> queue]

\* a handler that goes on to the next variant whatever the error
ConverseOnErrorNeverFatal(err, variant_id, queue) ==
    Continue(ErrStr({"Bedrock API error", err.code} \cup err.marks, variant_id, <<>>), queue)

\* _invoke_converse, the two except clauses (lines 312-363)
ConverseOnError(err, variant_id, queue) ==
    IF err.client
    THEN IF err.code = "ResourceNotFoundException" /\ "use case details" \in err.marks
         THEN Raise(EntitlementText(variant_id), queue)
         ELSE LET le == ErrStr({"Bedrock API error", err.code} \cup err.marks,
                               variant_id, <<>>)
              IN  IF MentionsProfile(err.marks)
                  THEN Continue(le, AppendAlias(queue, variant_id))
                  ELSE IF err.code # "ValidationException" THEN Raise(le, queue)
                  ELSE Continue(le, queue)
    ELSE LET le == ErrStr({"Failed to invoke model with ID"} \cup err.marks,
                          variant_id, <<>>)
         IN  IF MentionsProfile(err.marks)
             THEN Continue(le, AppendAlias(queue, variant_id))
             ELSE IF "ValidationException" \notin err.marks THEN Raise(le, queue)
             ELSE Continue(le, queue)

\* _try_invoke_model_direct, lines 639-644: every exception leaves as a plain
\* Exception whose text is built here
TryInvokeWrap(err) ==
    IF err.client THEN {"Bedrock API error", err.code} \cup err.marks
    ELSE {"Failed to invoke model"} \cup err.marks

\* _invoke_model_direct, lines 423-436.  The except ClientError clause of
\* lines 408-422 is never entered: _try_invoke_model_direct raises Exception.
DirectOnError(err, variant_id, queue) ==
    LET error_str == TryInvokeWrap(err)
        le == ErrStr({"Failed to invoke model with ID"} \cup error_str, variant_id, <<>>)
    IN  IF MentionsProfile(error_str) THEN Continue(le, AppendAlias(queue, variant_id))
        ELSE IF "ValidationException" \notin error_str THEN Raise(le, queue)
        ELSE Continue(le, queue)

\* lines 365-367 and 438-440
AllFailed(le, queue) ==
    ErrStr(le.has \cup {"All attempted model IDs"}, le.tried, queue)

\* evaluate_prompt, lines 181-202: the text stored in metrics["error"]
RecordedError(e, model_id) ==
    IF {"use case details", "ResourceNotFoundException"} \subseteq e.has
           /\ "TO FIX THIS ERROR" \notin e.has
    THEN EntitlementText(model_id)
    ELSE e

(***************************************************************************)
(* Successful replies.                                                     *)
(* A chat-style reply is [content, usage]; a single-turn reply is the      *)
(* decoded response body, a record holding exactly the keys that are       *)
(* present.  Each extraction returns the InvocationResult without the      *)
(* input token count: [text, output_tokens].                               *)
(***************************************************************************)
RECURSIVE ConcatTexts(_)
ConcatTexts(items) == IF items = <<>> THEN <<>> ELSE Head(items) \o ConcatTexts(Tail(items))

\* Python's `a or b` on integers
OrInt(a, b) == IF a # 0 THEN a ELSE b

\* Python's `a or b` on strings
OrText(a, b) == IF a # <<>> THEN a ELSE b

\* _invoke_converse, lines 291-310: (text, output tokens, input tokens)
ConverseResult(reply, tokenizer) ==
    LET text == ConcatTexts(reply.content)
        reported == Get(reply.usage, "outputTokens", 0)
    IN  [text |-> text,
         output_tokens |-> IF reported = 0 THEN CountTokens(tokenizer, text) ELSE reported,
         input_tokens |-> Get(reply.usage, "inputTokens", 0)]

\* usage.get(k1) or usage.get(k2) or usage.get(k3) or 0
UsageAny(usage, k1, k2, k3) ==
    OrInt(Get(usage, k1, 0), OrInt(Get(usage, k2, 0), Get(usage, k3, 0)))

\* str(n) for a natural number
RECURSIVE NatText(_)
NatText(n) ==
    LET d == <<"0", "1", "2", "3", "4", "5", "6", "7", "8", "9">>
    IN  IF n < 10 THEN <<d[n + 1]>> ELSE NatText(n \div 10) \o <<d[(n % 10) + 1]>>

\* the keys a single-turn response body of this model can hold beside the
\* text and usage fields, in the order of the decoded body, and their spelling
BodyKeys == <<"generation", "generation_token_count", "prompt_token_count", "stop_reason">>

KeyText ==
    [generation |-> <<"g", "e", "n", "e", "r", "a", "t", "i", "o", "n">>,
     generation_token_count |->
         <<"g", "e", "n", "e", "r", "a", "t", "i", "o", "n", "_", "t", "o", "k", "e", "n",
           "_", "c", "o", "u", "n", "t">>,
     prompt_token_count |->
         <<"p", "r", "o", "m", "p", "t", "_", "t", "o", "k", "e", "n", "_", "c", "o", "u",
           "n", "t">>,
     stop_reason |-> <<"s", "t", "o", "p", "_", "r", "e", "a", "s", "o", "n">>]

\* the keys of body among BodyKeys, in order: list(response_body.keys())
RECURSIVE KeysOf(_, _)
KeysOf(body, k) ==
    IF k > Len(BodyKeys) THEN <<>>
    ELSE (IF BodyKeys[k] \in DOMAIN body THEN <<BodyKeys[k]>> ELSE <<>>) \o KeysOf(body, k + 1)

\* json.dumps of a string: quoted, with the escapes of quote, backslash, newline
RECURSIVE Escaped(_)
Escaped(t) ==
    IF t = <<>> THEN <<>>
    ELSE (IF Head(t) \in {"\"", "\\"} THEN <<"\\", Head(t)>>
          ELSE IF Head(t) = "\n" THEN <<"\\", "n">>
          ELSE <<Head(t)>>) \o Escaped(Tail(t))

\* the members of json.dumps(body, indent=2); the value of a key is a count
\* or a text
RECURSIVE DumpMembers(_, _)
DumpMembers(body, keys) ==
    LET key == Head(keys)
        value == IF key \in {"generation_token_count", "prompt_token_count"}
                 THEN NatText(body[key])
                 ELSE <<"\"">> \o Escaped(body[key]) \o <<"\"">>
    IN  IF keys = <<>> THEN <<>>
        ELSE <<"\n", " ", " ", "\"">> \o KeyText[key] \o <<"\"", ":", " ">> \o value
             \o (IF Len(keys) > 1 THEN <<",">> ELSE <<"\n">>)
             \o DumpMembers(body, Tail(keys))

\* json.dumps(response_body, indent=2); the bodies of this model are shorter
\* than the 1000 characters kept by line 603
JsonDumps(body) == <<"{">> \o DumpMembers(body, KeysOf(body, 1)) \o <<"}">>

\* repr of a list of keys: ['generation', 'stop_reason']
RECURSIVE ReprKeys(_)
ReprKeys(keys) ==
    IF keys = <<>> THEN <<>>
    ELSE <<"'">> \o KeyText[Head(keys)] \o <<"'">>
         \o (IF Len(keys) > 1 THEN <<",", " ">> ELSE <<>>) \o ReprKeys(Tail(keys))

\* line 592: the text that replaces an empty generation with a token count
WarningText(generation_token_count, stop_reason) ==
    <<"[", "W", "A", "R", "N", "I", "N", "G", ":", " ", "M", "o", "d", "e",
      "l", " ", "g", "e", "n", "e", "r", "a", "t", "e", "d", " ">>
    \o NatText(generation_token_count) \o
    <<" ", "t", "o", "k", "e", "n", "(", "s", ")", " ", "b", "u", "t", " ",
      "o", "u", "t", "p", "u", "t", " ", "i", "s", " ", "e", "m", "p", "t",
      "y", ".", " ", "S", "t", "o", "p", " ", "r", "e", "a", "s", "o", "n",
      ":", " ">>
    \o stop_reason \o
    <<".", " ", "T", "h", "i", "s", " ", "m", "a", "y", " ", "i", "n", "d",
      "i", "c", "a", "t", "e", " ", "t", "h", "e", " ", "m", "o", "d", "e",
      "l", " ", "h", "i", "t", " ", "a", " ", "s", "t", "o", "p", " ", "s",
      "e", "q", "u", "e", "n", "c", "e", " ", "i", "m", "m", "e", "d", "i",
      "a", "t", "e", "l", "y", " ", "o", "r", " ", "g", "e", "n", "e", "r",
      "a", "t", "e", "d", " ", "o", "n", "l", "y", " ", "w", "h", "i", "t",
      "e", "s", "p", "a", "c", "e", ".", "]">>

\* line 604: the text that replaces an empty generation without a token count
DebugText(body) ==
    <<"[", "D", "E", "B", "U", "G", ":", " ", "N", "o", " ", "g", "e", "n",
      "e", "r", "a", "t", "i", "o", "n", " ", "f", "o", "u", "n", "d", ".",
      " ", "R", "e", "s", "p", "o", "n", "s", "e", " ", "k", "e", "y", "s",
      ":", " ">>
    \o <<"[">> \o ReprKeys(KeysOf(body, 1)) \o <<"]">> \o
    <<".", " ", "R", "e", "s", "p", "o", "n", "s", "e", " ", "b", "o", "d",
      "y", ":", " ">>
    \o JsonDumps(body) \o <<"]">>

\* lines 605-611
ExtractAmazon(body) ==
    LET result == IF Get(body, "results", <<>>) # <<>> THEN body.results[1] ELSE <<>>
        usage == Get(result, "usage", <<>>)
    IN  [text |-> Get(result, "outputText", <<>>),
         output_tokens |-> OrInt(Get(usage, "tokenCount", 0),
                                 Get(usage, "outputTokenCount", 0))]

\* lines 612-622
ExtractAlibaba(body) ==
    [text |-> OrText(Get(body, "completion", <<>>),
              OrText(Get(body, "generated_text", <<>>),
              OrText(Get(body, "output", <<>>), Get(body, "text", <<>>)))),
     output_tokens |-> UsageAny(Get(body, "usage", <<>>),
                                "output_tokens", "completion_tokens", "generation_tokens")]

\* lines 623-627
ExtractGeneric(body) ==
    [text |-> OrText(Get(body, "completion", <<>>), Get(body, "generated_text", <<>>)),
     output_tokens |-> UsageAny(Get(body, "usage", <<>>),
                                "output_tokens", "completion_tokens", "generation_tokens")]

\* lines 530-604.  The scan of lines 564-567 for a string value longer than
\* 10 characters finds nothing in the bodies of this model.
ExtractMeta(body, tokenizer) ==
    LET first == IF Get(body, "results", <<>>) # <<>> THEN body.results[1] ELSE <<>>
        text0 == IF "generation" \in DOMAIN body THEN body.generation
                 ELSE IF "generated_text" \in DOMAIN body THEN body.generated_text
                 ELSE IF "output" \in DOMAIN body THEN body.output
                 ELSE IF "text" \in DOMAIN body THEN body.text
                 ELSE IF "results" \in DOMAIN body
                      THEN OrText(Get(first, "generated_text", <<>>),
                           OrText(Get(first, "text", <<>>),
                           OrText(Get(first, "output", <<>>),
                                  Get(first, "generation", <<>>))))
                 ELSE <<>>
        gtc == Get(body, "generation_token_count", 0)
        out0 == OrInt(gtc, UsageAny(Get(body, "usage", <<>>),
                                    "completion_tokens", "generation_tokens", "output_tokens"))
        warn == gtc > 0 /\ StripText(text0) = <<>>
        stop_reason == Get(body, "stop_reason", <<"u", "n", "k", "n", "o", "w", "n">>)
        text1 == IF warn THEN WarningText(gtc, stop_reason) ELSE text0
        out1 == IF ~warn /\ out0 = 0 /\ text0 # <<>> THEN CountTokens(tokenizer, text0)
                ELSE out0
    IN  [text |-> IF text1 = <<>> /\ out1 = 0 THEN DebugText(body) ELSE text1,
         output_tokens |-> out1]

IsMeta(provider, id) == provider = "meta" \/ Contains(id, "llama")

IsAmazon(provider, id) ==
    provider = "amazon" \/ Contains(id, "titan") \/ Contains(id, "nova")

IsAlibaba(provider, id) == provider = "alibaba" \/ Contains(id, "qwen")

\* _try_invoke_model_direct, lines 529-637: (text, output tokens, input tokens);
\* counted is what _get_actual_input_tokens returned
DirectResult(provider, variant_id, body, tokenizer, counted) ==
    LET x == IF IsMeta(provider, variant_id) THEN ExtractMeta(body, tokenizer)
             ELSE IF IsAmazon(provider, variant_id) THEN ExtractAmazon(body)
             ELSE IF IsAlibaba(provider, variant_id) THEN ExtractAlibaba(body)
             ELSE ExtractGeneric(body)
    IN  [text |-> x.text,
         output_tokens |-> IF x.output_tokens = 0 THEN CountTokens(tokenizer, x.text)
                           ELSE x.output_tokens,
         input_tokens |-> counted]

(***************************************************************************)
(* Response validation.                                                    *)
(***************************************************************************)
\* the backquote character (the lexer of TLA+ takes no backquote in a string)
Backquote == "<backquote>"

Fence == <<Backquote, Backquote, Backquote>>

JsonTag == <<"j", "s", "o", "n">>

\* t.find(w, i): the first index >= i at which w occurs, 0 for none
IndexFrom(t, w, i) ==
    LET S == {j \in i .. Len(t) : MatchAt(t, j, w)}
    IN  IF S = {} THEN 0 ELSE CHOOSE j \in S : \A k \in S : j <= k

\* t.rfind(c): the last index of the character c, 0 for none
LastIndex(t, c) ==
    IF \E k \in DOMAIN t : t[k] = c
    THEN CHOOSE k \in DOMAIN t : t[k] = c /\ \A m \in DOMAIN t : t[m] = c => m <= k
    ELSE 0

NoMatch == [ok |-> FALSE, group |-> <<>>, end |-> 0]

\* one of json_block_patterns (lines 788-795) matched at index s of t.
\* tagged: the pattern starts with the fence and "json", else with the fence;
\* newlines: the pattern is  <start>\s*\n(.*?)\n<fence>  (the greedy \s* gives
\* back to the last newline that leaves a closing line), else
\* <start>\s*(.*?)\s*<fence>  or  <start>\s*(.*?)<fence>, whose groups differ
\* by surrounding white space only and close at the first fence after <start>.
FenceMatchAt(t, s, tagged, newlines) ==
    LET start == Fence \o (IF tagged THEN JsonTag ELSE <<>>)
        h == s + Len(start)
        w == SkipWs(t, h)
        K == {k \in h .. w - 1 : t[k] = "\n" /\ IndexFrom(t, <<"\n">> \o Fence, k + 1) # 0}
    IN  IF ~MatchAt(t, s, start) THEN NoMatch
        ELSE IF newlines
        THEN IF K = {} THEN NoMatch
             ELSE LET k == CHOOSE x \in K : \A y \in K : y <= x
                      q == IndexFrom(t, <<"\n">> \o Fence, k + 1)
                  IN  [ok |-> TRUE, group |-> SubSeq(t, k + 1, q - 1), end |-> q + 4]
        ELSE LET q == IndexFrom(t, Fence, h)
             IN  IF q = 0 THEN NoMatch
                 ELSE [ok |-> TRUE, group |-> SubSeq(t, h, q - 1), end |-> q + 3]

\* re.findall(pattern, text, re.DOTALL), each group stripped (line 801)
RECURSIVE FenceFindAll(_, _, _, _)
FenceFindAll(t, i, tagged, newlines) ==
    LET s == IndexFrom(t, Fence, i)
        m == FenceMatchAt(t, s, tagged, newlines)
    IN  IF s = 0 THEN <<>>
        ELSE IF m.ok THEN <<StripText(m.group)>> \o FenceFindAll(t, m.end, tagged, newlines)
        ELSE FenceFindAll(t, s + 1, tagged, newlines)

\* the fence step finds no block
NoFenceCandidates(t) == <<>>

\* lines 788-806: the candidates in the order they are tried
FenceCandidates(t) ==
    FenceFindAll(t, 1, TRUE, TRUE) \o FenceFindAll(t, 1, FALSE, TRUE)
        \o FenceFindAll(t, 1, TRUE, FALSE) \o FenceFindAll(t, 1, FALSE, FALSE)
        \o FenceFindAll(t, 1, TRUE, FALSE) \o FenceFindAll(t, 1, FALSE, FALSE)

Invalid == [valid |-> FALSE, cleaned |-> <<>>]

Valid(c) == [valid |-> TRUE, cleaned |-> c]

\* lines 823-852: the index at which the bracket opened at the start of the
\* scan is closed, 0 when the text ends first.  The scan steps from one
\* character that the loop reacts to (backslash, quote, either bracket) to
\* the next.  (The safety limit of 50000 characters is beyond the texts of
\* this model.)
RECURSIVE ScanClose(_, _, _, _, _, _)
ScanClose(t, from, start_char, end_char, bracket_count, in_string) ==
    LET S == {k \in from .. Len(t) : t[k] \in {"\\", "\"", start_char, end_char}}
        i == CHOOSE k \in S : \A m \in S : k <= m
    IN  IF S = {} THEN 0
        ELSE IF t[i] = "\\"
        THEN ScanClose(t, i + 2, start_char, end_char, bracket_count, in_string)
        ELSE IF t[i] = "\""
        THEN ScanClose(t, i + 1, start_char, end_char, bracket_count, ~in_string)
        ELSE IF in_string
        THEN ScanClose(t, i + 1, start_char, end_char, bracket_count, in_string)
        ELSE IF t[i] = start_char
        THEN ScanClose(t, i + 1, start_char, end_char, bracket_count + 1, in_string)
        ELSE IF bracket_count = 1 THEN i
        ELSE ScanClose(t, i + 1, start_char, end_char, bracket_count - 1, in_string)

\* the balanced scan finds no candidate
NoBalancedCandidate(t, start_char, end_char) == <<>>

\* lines 813-875 for one pair of brackets.  A closed candidate that does not
\* parse is tried once more as text[start:last_valid_end+1] and fails again;
\* the last resort of lines 866-875 needs an unclosed bracket.
BalancedCandidate(t, start_char, end_char) ==
    LET start_idx == IndexFrom(t, <<start_char>>, 1)
        close == IF start_idx = 0 THEN 0
                 ELSE ScanClose(t, start_idx, start_char, end_char, 0, FALSE)
        end_idx == LastIndex(t, end_char)
    IN  IF start_idx = 0 THEN <<>>
        ELSE IF close # 0 THEN <<SubSeq(t, start_idx, close)>>
        ELSE IF end_idx > start_idx THEN <<SubSeq(t, start_idx, end_idx)>>
        ELSE <<>>

\* re.finditer of the non-greedy patterns  \[[\s\S]*?\]  and  \{[\s\S]*?\}
RECURSIVE NonGreedy(_, _, _, _)
NonGreedy(t, i, open, close) ==
    LET s == IndexFrom(t, <<open>>, i)
        e == IF s = 0 THEN 0 ELSE IndexFrom(t, <<close>>, s + 1)
    IN  IF e = 0 THEN <<>>
        ELSE <<SubSeq(t, s, e)>> \o NonGreedy(t, e + 1, open, close)

\* re.finditer of the greedy patterns  \[[\s\S]+\]  and  \{[\s\S]+\}
Greedy(t, open, close) ==
    LET last == LastIndex(t, close)
        S == {s \in DOMAIN t : t[s] = open /\ s + 2 <= last}
    IN  IF S = {} THEN <<>>
        ELSE <<SubSeq(t, CHOOSE s \in S : \A x \in S : s <= x, last)>>

\* lines 888-905: the longest candidate that parses, the first of equals
\* (none: the empty sequence)
RECURSIVE BestMatch(_, _)
BestMatch(cands, best) ==
    IF cands = <<>> THEN best
    ELSE IF JsonLoads(Head(cands)) /\ (best = <<>> \/ Len(Head(cands)) > Len(best[1]))
    THEN BestMatch(Tail(cands), <<Head(cands)>>)
    ELSE BestMatch(Tail(cands), best)

\* lines 907-933
FirstToLast(t) ==
    LET first_bracket == IndexFrom(t, <<"[">>, 1)
        first_brace == IndexFrom(t, <<"{">>, 1)
    IN  (IF first_bracket > 0 /\ (first_brace = 0 \/ first_bracket < first_brace)
            /\ LastIndex(t, "]") > first_bracket
         THEN <<SubSeq(t, first_bracket, LastIndex(t, "]"))>> ELSE <<>>)
        \o (IF first_brace > 0 /\ LastIndex(t, "}") > first_brace
            THEN <<SubSeq(t, first_brace, LastIndex(t, "}"))>> ELSE <<>>)

\* what each step of lines 771-933 hands to json.loads, in the order tried:
\* the stripped text, the fenced blocks, the balanced scans, the best regex
\* match, the first bracket to the last
Candidates(t, step) ==
    IF step = 1 THEN <<StripText(t)>>
    ELSE IF step = 2 THEN FenceCandidates(t)
    ELSE IF step = 3
    THEN BalancedCandidate(StripText(t), "{", "}")
             \o BalancedCandidate(StripText(t), "[", "]")
    ELSE IF step = 4
    THEN BestMatch(NonGreedy(t, 1, "[", "]") \o NonGreedy(t, 1, "{", "}")
                       \o Greedy(t, "[", "]") \o Greedy(t, "{", "}"), <<>>)
    ELSE FirstToLast(t)

\* the first candidate that json.loads accepts, from the candidates left of
\* this step on through the later steps
RECURSIVE FirstValid(_, _, _)
FirstValid(t, step, cands) ==
    IF cands = <<>>
    THEN IF step = 5 THEN Invalid
         ELSE FirstValid(t, step + 1, Candidates(t, step + 1))
    ELSE IF JsonLoads(Head(cands)) THEN Valid(Head(cands))
    ELSE FirstValid(t, step, Tail(cands))

\* _validate_json_with_cleaning, lines 767-935: (is_valid, cleaned_json_text)
ValidateJsonWithCleaning(t) ==
    IF StripText(t) = <<>> THEN Invalid ELSE FirstValid(t, 1, Candidates(t, 1))

\* str.lower() on the letters of the alphabet
Lower(t) ==
    LET up == <<"A", "B", "C", "D", "E", "F", "G", "H", "I", "J", "K", "L", "M",
                "N", "O", "P", "Q", "R", "S", "T", "U", "V", "W", "X", "Y", "Z">>
        lo == <<"a", "b", "c", "d", "e", "f", "g", "h", "i", "j", "k", "l", "m",
                "n", "o", "p", "q", "r", "s", "t", "u", "v", "w", "x", "y", "z">>
    IN  [k \in DOMAIN t |->
            IF \E j \in 1 .. 26 : up[j] = t[k]
            THEN lo[CHOOSE j \in 1 .. 26 : up[j] = t[k]] ELSE t[k]]

\* lines 125-132
prefixes_to_remove ==
    <<<<"H", "e", "r", "e", "'", "s", " ", "t", "h", "e", " ", "J", "S", "O",
        "N", ":">>,
      <<"H", "e", "r", "e", " ", "i", "s", " ", "t", "h", "e", " ", "J", "S",
        "O", "N", ":">>,
      <<"T", "h", "e", " ", "J", "S", "O", "N", " ", "r", "e", "s", "p", "o",
        "n", "s", "e", " ", "i", "s", ":">>,
      <<"J", "S", "O", "N", ":">>,
      <<Backquote, Backquote, Backquote, "j", "s", "o", "n">>,
      <<Backquote, Backquote, Backquote>>>>

\* lines 142-146
suffixes_to_remove ==
    <<<<Backquote, Backquote, Backquote>>,
      <<"H", "o", "p", "e", " ", "t", "h", "i", "s", " ", "h", "e", "l", "p",
        "s", "!">>,
      <<"L", "e", "t", " ", "m", "e", " ", "k", "n", "o", "w", " ", "i", "f",
        " ", "y", "o", "u", " ", "n", "e", "e", "d", " ", "a", "n", "y", "t",
        "h", "i", "n", "g", " ", "e", "l", "s", "e", ".">>>>

\* lines 133-138: the loop over prefixes_to_remove
RECURSIVE RemovePrefixes(_, _)
RemovePrefixes(t, prefixes) ==
    IF prefixes = <<>> THEN t
    ELSE LET prefix == Head(prefixes)
             cut == IF Len(prefix) <= Len(t)
                        /\ Lower(SubSeq(t, 1, Len(prefix))) = Lower(prefix)
                    THEN StripText(SubSeq(t, Len(prefix) + 1, Len(t))) ELSE t
             nocolon == IF cut # t /\ cut # <<>> /\ cut[1] = ":"
                        THEN StripText(Tail(cut)) ELSE cut
         IN  RemovePrefixes(nocolon, Tail(prefixes))

\* lines 147-149: the loop over suffixes_to_remove
RECURSIVE RemoveSuffixes(_, _)
RemoveSuffixes(t, suffixes) ==
    IF suffixes = <<>> THEN t
    ELSE LET suffix == Head(suffixes)
             cut == IF Len(suffix) <= Len(t)
                        /\ Lower(SubSeq(t, Len(t) - Len(suffix) + 1, Len(t)))
                               = Lower(suffix)
                    THEN StripText(SubSeq(t, 1, Len(t) - Len(suffix))) ELSE t
         IN  RemoveSuffixes(cut, Tail(suffixes))

\* evaluate_prompt, lines 123-149: cleaned_response
CleanedResponse(t) ==
    RemoveSuffixes(RemovePrefixes(StripText(t), prefixes_to_remove), suffixes_to_remove)

\* evaluate_prompt, lines 106-168: the entries validation adds to metrics.
\* first is the verdict on the text as generated, v the verdict that stands
\* after the second try on the cleaned text (made only for an invalid text of
\* a prompt that expects JSON, when cleaning changed the text).
ValidationFields(text, output_tokens, expected_json) ==
    IF text = <<>> \/ StripText(text) = <<>> \/ output_tokens = 0
    THEN [json_valid |-> IF expected_json THEN "False" ELSE "None"]
    ELSE CHOOSE fields \in
             {IF v.valid /\ v.cleaned # <<>>
              THEN [json_valid |-> "True", cleaned_response |-> v.cleaned]
              ELSE IF v.valid THEN [json_valid |-> "True"]
              ELSE IF expected_json
                   THEN [json_valid |-> "False", original_response |-> text]
                   ELSE [json_valid |-> "False"] :
                v \in {IF ~first.valid /\ expected_json /\ CleanedResponse(text) # text
                       THEN ValidateJsonWithCleaning(CleanedResponse(text)) ELSE first :
                          first \in {ValidateJsonWithCleaning(text)}}} : TRUE

(***************************************************************************)
(* Cost.                                                                   *)
(***************************************************************************)
\* round(x, 6) with x in nano-dollars, the result in micro-dollars
\* (round half to even)
Round6(nano) ==
    LET q == nano \div 1000
        r == nano % 1000
    IN  IF r > 500 \/ (r = 500 /\ q % 2 = 1) THEN q + 1 ELSE q

\* the total as the sum of the recorded components
CostFieldsSumOfRounded(in_tokens, out_tokens, m) ==
    [cost_usd_input  |-> Round6(in_tokens * m.price_in),
     cost_usd_output |-> Round6(out_tokens * m.price_out),
     cost_usd_total  |-> Round6(in_tokens * m.price_in) + Round6(out_tokens * m.price_out)]

\* evaluate_prompt, lines 170-177
CostFields(in_tokens, out_tokens, m) ==
    [cost_usd_input  |-> Round6(in_tokens * m.price_in),
     cost_usd_output |-> Round6(out_tokens * m.price_out),
     cost_usd_total  |-> Round6(in_tokens * m.price_in + out_tokens * m.price_out)]

(***************************************************************************)
(* The MetricRecord.  timestamp, run_id and input_prompt are left out:     *)
(* nothing in the engine reads them back.                                  *)
(***************************************************************************)
\* evaluate_prompt, lines 69-85
InitialMetrics(m, row, estimate) ==
    [model_name |-> m.name, model_id |-> m.bedrock_model_id, prompt_id |-> row.prompt_id,
     input_tokens |-> estimate, output_tokens |-> 0, latency_ms |-> 0,
     json_valid |-> "False", error |-> NoneVal, status |-> "success",
     cost_usd_input |-> 0, cost_usd_output |-> 0, cost_usd_total |-> 0]

\* the record keeps the estimate whatever the endpoint reported
FinalInputTokensIgnoresApi(estimate, reported) == estimate

\* lines 99-101
FinalInputTokens(estimate, reported) == IF reported > 0 THEN reported ELSE estimate

\* r with the entries of upd set (dict item assignment)
Update(r, upd) == [k \in DOMAIN r \cup DOMAIN upd |-> IF k \in DOMAIN upd THEN upd[k] ELSE r[k]]

\* the success record carries the last error of the failed variants
SuccessMetricsKeepsLastError(m, row, estimate, res, elapsed) ==
    Update(InitialMetrics(m, row, estimate),
        Update([latency_ms |-> elapsed, output_tokens |-> res.output_tokens,
                input_tokens |-> FinalInputTokens(estimate, res.input_tokens),
                response |-> res.text, error |-> last_error],
        Update(ValidationFields(res.text, res.output_tokens, row.expected_json),
               CostFields(FinalInputTokens(estimate, res.input_tokens),
                          res.output_tokens, m))))

\* evaluate_prompt, lines 95-177: the record of a call whose _invoke_model returned
SuccessMetrics(m, row, estimate, res, elapsed) ==
    Update(InitialMetrics(m, row, estimate),
        Update([latency_ms |-> elapsed, output_tokens |-> res.output_tokens,
                input_tokens |-> FinalInputTokens(estimate, res.input_tokens),
                response |-> res.text],
        Update(ValidationFields(res.text, res.output_tokens, row.expected_json),
               CostFields(FinalInputTokens(estimate, res.input_tokens),
                          res.output_tokens, m))))

\* evaluate_prompt, lines 179-207: the record of a call whose _invoke_model raised
ErrorMetrics(m, row, estimate, e, elapsed) ==
    Update(InitialMetrics(m, row, estimate),
           [status |-> "error", error |-> RecordedError(e, m.bedrock_model_id),
            latency_ms |-> elapsed])

(***************************************************************************)
(* Inputs: texts, descriptors, prompt rows, and the answers of the remote  *)
(* endpoint.                                                               *)
(***************************************************************************)
TxtHello == <<"h", "e", "l", "l", "o">>

TxtObj == <<"{", "\"", "a", "\"", ":", "1", "}">>

TxtProse == <<"o", "k", " ", "o", "k">>

TxtBlank == <<" ", "\n">>

Descriptor(name, id, provider, tokenizer, profile, price_in, price_out) ==
    [name |-> name, bedrock_model_id |-> id, provider |-> provider,
     tokenizer |-> tokenizer, use_inference_profile |-> profile,
     price_in |-> price_in, price_out |-> price_out]

Claude ==
    Descriptor("claude", <<"claude", ":", "1">>, "anthropic", "anthropic", FALSE, 3000, 15000)

Llama == Descriptor("llama", <<"llama", ":", "0">>, "meta", "llama", FALSE, 220, 220)

Titan == Descriptor("M", <<"id-1">>, "amazon", "heuristic", FALSE, 2000, 6000)

\* a descriptor loaded from "tokenizer: null"
NoTokenizer == Descriptor("notok", <<"qwen", ":", "1">>, "alibaba", "None", FALSE, 150, 600)

Qwen == Descriptor("qwen", <<"qwen", ":", "1">>, "alibaba", "qwen", FALSE, 150, 600)

\* "nimbus" has an identifier that holds "us." without starting with it
Catalog ==
    {Claude, Llama, Titan, Qwen, NoTokenizer,
     Descriptor("pinned", <<"claude", ":", "1">>, "anthropic", "anthropic", TRUE, 3000, 15000),
     Descriptor("llama-bare", <<"llama">>, "meta", "llama", FALSE, 220, 220),
     Descriptor("nova", <<"us.", "nova", ":", "0">>, "amazon", "nova", FALSE, 35, 140),
     Descriptor("nimbus", <<"nimb", "us.", "v", ":", "1">>, "other", "heuristic", FALSE,
                150, 600)}

PromptRow(id, text, expected_json) ==
    [prompt_id |-> id, prompt |-> text, expected_json |-> expected_json]

Rows == {PromptRow(1, TxtHello, TRUE), PromptRow(2, <<"s", "a", "y", " ", "h", "i">>, FALSE),
         PromptRow(3, <<>>, FALSE), PromptRow(4, NaN, FALSE)}

EValidationProfile == ClientErr("ValidationException", {"inference profile"})

RemoteErrors ==
    {ClientErr("ValidationException", {}),
     EValidationProfile,
     ClientErr("ResourceNotFoundException", {"use case details"}),
     ClientErr("ResourceNotFoundException", {"use case details", "inference profile"}),
     ClientErr("ThrottlingException", {}),
     ClientErr("ThrottlingException", {"on-demand throughput"}),
     OtherErr({})}

ConverseReply(texts, usage) == [content |-> texts, usage |-> usage]

ConverseReplies ==
    {ConverseReply(<<TxtObj>>, [inputTokens |-> 9, outputTokens |-> 5]),
     ConverseReply(<<TxtProse>>, <<>>),
     ConverseReply(<<<<"o", "k">>>>, <<>>),
     ConverseReply(<<<<"[", "]">>>>, <<>>),
     ConverseReply(<<TxtBlank>>, [inputTokens |-> 9, outputTokens |-> 2]),
     ConverseReply(<<>>, [inputTokens |-> 9])}

\* the body of the amazon scenario: usage beside results
BodyUsageBeside == [results |-> <<[outputText |-> TxtObj]>>, usage |-> [tokenCount |-> 5]]

\* usage inside the first result
BodyUsageInside == [results |-> <<[outputText |-> TxtObj, usage |-> [tokenCount |-> 5]]>>]

BodyGeneration ==
    [generation |-> TxtObj, generation_token_count |-> 4, prompt_token_count |-> 3]

\* the last two hold a generated text of white space only and its token count
Bodies ==
    {BodyUsageBeside, BodyUsageInside,
     [completion |-> TxtProse, usage |-> [output_tokens |-> 6]],
     [results |-> <<[outputText |-> TxtBlank, usage |-> [tokenCount |-> 2]]>>],
     [completion |-> TxtBlank, usage |-> [output_tokens |-> 2]]}

\* the bodies a meta model answers with
Generations ==
    {BodyGeneration,
     [generation |-> TxtBlank, generation_token_count |-> 3],
     [generation |-> <<>>]}

\* the endpoint of a run that is studied call by call
FullRemote ==
    [errors |-> RemoteErrors, replies |-> ConverseReplies, bodies |-> Bodies,
     generations |-> {BodyGeneration}, counted |-> {0, 7}, durs |-> 1 .. MaxDur,
     follows |-> 0 .. MaxFollow]

\* the endpoint of a batch run: it asks for an inference profile or answers
QuietRemote ==
    [errors |-> {EValidationProfile},
     replies |-> {ConverseReply(<<TxtObj>>, [inputTokens |-> 9, outputTokens |-> 5])},
     bodies |-> {BodyUsageInside}, generations |-> Generations, counted |-> {0},
     durs |-> {1}, follows |-> {0}]

Regions == {"us-east-1", "us-east-2"}

\* nothing observed yet: no attempt denied (entitlement-class) or failed with
\* an unclassified error, no time spent, no reply, no remote error
NoObs == [denied_at |-> 0, denied_len |-> 0, transient_at |-> 0, transient_hint |-> FALSE,
          queued_then |-> 0, spent |-> 0, won_ms |-> 0, reported_in |-> 0,
          reply |-> <<>>, outcome |-> "none", err |-> NoneVal]

\* __init__ and the arguments of evaluate_prompts_batch: one call against the
\* full endpoint, or a batch of two prompt rows and two models
InitCall ==
    /\ \E m \in Catalog : models = <<m>>
    /\ \E r \in Rows : prompts = <<r>>
    /\ remote = FullRemote

InitBatch ==
    /\ models \in {<<Claude, Titan>>, <<Llama, Claude>>, <<Titan, NoTokenizer>>}
    /\ \E r1, r2 \in Rows : prompts = <<r1, r2>>
    /\ remote = QuietRemote

\* no call in flight and nothing collected
Fresh ==
    /\ pi = 1
    /\ mi = 1
    /\ pc = "batch"
    /\ all_metrics = <<>>
    /\ input_tokens = 0
    /\ model_id_variants = <<>>
    /\ vi = 0
    /\ last_error = NoneVal
    /\ timer_start = 0
    /\ now = 0
    /\ tried = <<>>
    /\ obs = NoObs
    /\ built = <<>>

\* the validator is not called on its own
ValidatorUnused ==
    /\ pieces = [form |-> "none", parts |-> <<>>]
    /\ response_text = <<>>
    /\ verdict = NoneVal

\* the report generator is not called on its own
ReportUnused ==
    /\ raw_metrics_df = <<>>
    /\ agg_df = [returned |-> FALSE, rows |-> <<>>]
    /\ tuple_keys = FALSE

\* an evaluator that is given nothing to evaluate
Idle ==
    /\ region = "us-east-1"
    /\ models = <<>>
    /\ prompts = <<>>
    /\ remote = QuietRemote
    /\ Fresh

\* the driver script is not run
DriverUnused ==
    /\ prompts_df = <<>>
    /\ at = "done"
    /\ row_idx = 1
    /\ model_idx = 1
    /\ collected = <<>>
    /\ raw_csv = [exists |-> FALSE, rows |-> <<>>]
    /\ interrupted = "no"

Init ==
    /\ region \in Regions
    /\ InitCall \/ InitBatch
    /\ Fresh
    /\ ValidatorUnused
    /\ ReportUnused
    /\ DriverUnused

(***************************************************************************)
(* The batch loop and one evaluate_prompt call.                            *)
(***************************************************************************)
Row == prompts[pi]

Model == models[mi]

\* the claim's classes of remote errors
ErrClass(err) ==
    IF err.code = "ResourceNotFoundException" /\ "use case details" \in err.marks
    THEN "entitlement"
    ELSE IF err.code = "ValidationException" \/ "ValidationException" \in err.marks
    THEN "validation"
    ELSE "other"

\* evaluate_prompts_batch, lines 746-763: the loop variables after the call on
\* (pi, mi) has returned
Advance ==
    IF mi < Len(models)
    THEN /\ mi' = mi + 1
         /\ pi' = pi
         /\ pc' = "batch"
    ELSE /\ mi' = 1
         /\ pi' = pi + 1
         /\ pc' = IF pi + 1 > Len(prompts) THEN "done" ELSE "batch"

\* the wall-clock time between Stopwatch.__enter__ and __exit__, the remote
\* call in progress having taken `took`, measured for that call alone
ElapsedOfLastCall(start, clock, took) == took

\* Stopwatch.__exit__: elapsed_ms = end - start, read `took` ms after `clock`
Elapsed(start, clock, took) == (clock + took) - start

\* lines 751-752: `if not prompt: continue`
SkipRow ==
    /\ pc = "batch"
    /\ Row.prompt = <<>>
    /\ pi' = pi + 1
    /\ mi' = 1
    /\ pc' = IF pi + 1 > Len(prompts) THEN "done" ELSE "batch"
    /\ UNCHANGED <<validator, report, driver>>
    /\ UNCHANGED <<region, models, prompts, remote, all_metrics, input_tokens,
                   model_id_variants, vi, last_error, timer_start, now, tried, obs, built>>

\* evaluate_prompt, line 63: count_tokens raises before the try block is
\* entered; the exception leaves evaluate_prompt and evaluate_prompts_batch
EstimateRaises ==
    /\ pc = "batch"
    /\ Row.prompt # <<>>
    /\ CountTokensRaises(Model.tokenizer, Row.prompt)
    /\ pc' = "raised"
    /\ UNCHANGED <<validator, report, driver>>
    /\ UNCHANGED <<region, models, prompts, remote, pi, mi, all_metrics, input_tokens,
                   model_id_variants, vi, last_error, timer_start, now, tried, obs, built>>

\* evaluate_prompt, lines 54-93, and _invoke_model up to the first remote call
BeginEvaluate ==
    /\ pc = "batch"
    /\ Row.prompt # <<>>
    /\ ~CountTokensRaises(Model.tokenizer, Row.prompt)
    /\ input_tokens' = CountTokens(Model.tokenizer, Row.prompt)
    /\ timer_start' = now
    /\ model_id_variants' = BuildVariants(Model, region)
    /\ vi' = 1
    /\ last_error' = NoneVal
    /\ tried' = <<>>
    /\ obs' = NoObs
    /\ built' = Append(built, [model |-> mi, row |-> pi,
                                variants |-> BuildVariants(Model, region),
                                final |-> BuildVariants(Model, region)])
    /\ pc' = "attempt"
    /\ UNCHANGED <<validator, report, driver>>
    /\ UNCHANGED <<region, models, prompts, remote, pi, mi, all_metrics, now>>

\* one remote invocation that raises, and what the variant loop and
\* evaluate_prompt do with it
AttemptFails ==
    /\ pc = "attempt"
    /\ \E err \in remote.errors, d \in remote.durs :
          LET variant_id == model_id_variants[vi]
              dec == IF UsesConverse(Model)
                     THEN ConverseOnError(err, variant_id, model_id_variants)
                     ELSE DirectOnError(err, variant_id, model_id_variants)
              exhausted == ~dec.raise /\ vi + 1 > Len(dec.queue)
              e == IF dec.raise THEN dec.last_error ELSE AllFailed(dec.last_error, dec.queue)
              n == Len(tried) + 1
          IN  /\ now' = now + d
              /\ tried' = Append(tried, variant_id)
              /\ model_id_variants' = dec.queue
              /\ last_error' = dec.last_error
              /\ obs' = [obs EXCEPT
                    !.denied_at = IF @ = 0 /\ ErrClass(err) = "entitlement" THEN n ELSE @,
                    !.denied_len = IF obs.denied_at = 0 /\ ErrClass(err) = "entitlement"
                                   THEN Len(model_id_variants) ELSE @,
                    !.transient_at = IF @ = 0 /\ ErrClass(err) = "other" THEN n ELSE @,
                    !.transient_hint = IF obs.transient_at = 0 /\ ErrClass(err) = "other"
                                       THEN MentionsProfile(err.marks) ELSE @,
                    !.queued_then = IF obs.transient_at = 0 /\ ErrClass(err) = "other"
                                    THEN Len(model_id_variants) - vi ELSE @,
                    !.spent = @ + d,
                    !.err = err,
                    !.outcome = IF dec.raise THEN "raised"
                                ELSE IF exhausted THEN "exhausted" ELSE "none"]
              /\ IF dec.raise \/ exhausted
                 THEN /\ all_metrics' = Append(all_metrics,
                             ErrorMetrics(Model, Row, input_tokens, e,
                                          Elapsed(timer_start, now, d)))
                      /\ vi' = vi
                      /\ Advance
                 ELSE /\ vi' = vi + 1
                      /\ UNCHANGED <<all_metrics, pi, mi, pc>>
              /\ built' = [built EXCEPT ![Len(built)].final = dec.queue]
    /\ UNCHANGED <<validator, report, driver>>
    /\ UNCHANGED <<region, models, prompts, remote, input_tokens, timer_start>>

\* one successful chat-style invocation, and the rest of evaluate_prompt
ConverseSucceeds ==
    /\ pc = "attempt"
    /\ UsesConverse(Model)
    /\ \E reply \in remote.replies, d \in remote.durs :
          LET res == ConverseResult(reply, Model.tokenizer)
          IN  /\ now' = now + d
              /\ tried' = Append(tried, model_id_variants[vi])
              /\ obs' = [obs EXCEPT !.spent = @ + d, !.won_ms = d,
                                    !.reported_in = res.input_tokens,
                                    !.reply = reply, !.outcome = "returned"]
              /\ all_metrics' = Append(all_metrics,
                     SuccessMetrics(Model, Row, input_tokens, res,
                                    Elapsed(timer_start, now, d)))
    /\ Advance
    /\ UNCHANGED <<validator, report, driver>>
    /\ UNCHANGED <<region, models, prompts, remote, input_tokens, model_id_variants,
                   vi, last_error, timer_start, built>>

\* one successful single-turn invocation with its follow-up CountTokens call,
\* and the rest of evaluate_prompt
DirectSucceeds ==
    /\ pc = "attempt"
    /\ ~UsesConverse(Model)
    /\ \E body \in (IF IsMeta(Model.provider, model_id_variants[vi])
                    THEN remote.generations ELSE remote.bodies),
          d \in remote.durs, counted \in remote.counted, f \in remote.follows :
          LET res == DirectResult(Model.provider, model_id_variants[vi], body,
                                  Model.tokenizer, counted)
          IN  /\ now' = now + d + f
              /\ tried' = Append(tried, model_id_variants[vi])
              /\ obs' = [obs EXCEPT !.spent = @ + d + f, !.won_ms = d,
                                    !.reported_in = counted,
                                    !.reply = body, !.outcome = "returned"]
              /\ all_metrics' = Append(all_metrics,
                     SuccessMetrics(Model, Row, input_tokens, res,
                                    Elapsed(timer_start, now, d + f)))
    /\ Advance
    /\ UNCHANGED <<validator, report, driver>>
    /\ UNCHANGED <<region, models, prompts, remote, input_tokens, model_id_variants,
                   vi, last_error, timer_start, built>>

Next ==
    \/ SkipRow
    \/ EstimateRaises
    \/ BeginEvaluate
    \/ AttemptFails
    \/ ConverseSucceeds
    \/ DirectSucceeds

Spec == Init /\ [][Next]_vars

(***************************************************************************)
(* _validate_json_with_cleaning called on its own.  The texts are written  *)
(* from parts: two JSON values among prose, or a fenced block holding a    *)
(* JSON value between two stretches of prose, two fenced blocks, or a bare  *)
(* scalar (a number, a quoted string, true, false, null).                  *)
(***************************************************************************)
\* {"a":1}  {}  {"k":[1,2]}  [1]  [1,2,3,4,5]  [{"k":2}]  ["}{"]  ["{}"]
JsonValues ==
    {<<"{", "\"", "a", "\"", ":", "1", "}">>,
     <<"{", "}">>,
     <<"{", "\"", "k", "\"", ":", "[", "1", ",", "2", "]", "}">>,
     <<"[", "1", "]">>,
     <<"[", "1", ",", "2", ",", "3", ",", "4", ",", "5", "]">>,
     <<"[", "{", "\"", "k", "\"", ":", "2", "}", "]">>,
     <<"[", "\"", "}", "{", "\"", "]">>,
     <<"[", "\"", "{", "}", "\"", "]">>}

\* two JSON values among prose without brackets or braces
TwoValues ==
    {[form |-> "two", parts |-> <<pre, a, mid, b, post>>] :
        pre \in {<<>>, <<"o", "k", " ">>, <<"s", "a", "y", " ", "\"">>,
                 <<" ", "o", "r", "\n">>},
        a \in JsonValues, mid \in {<<" ">>, <<" ", "o", "r", "\n">>},
        b \in JsonValues, post \in {<<>>, <<" ">>}}

\* a JSON value between the opening and the closing line of a fenced block,
\* as models write them, among prose with brackets, braces, quotes and a
\* JSON value of its own
FencedValue ==
    LET prose == {<<>>, <<"s", "e", "e", " ", "[", "x", "]", " ">>,
                  <<"u", "s", "e", " ", "{", "y", "}", ":", " ">>,
                  <<" ", "{", "\"", "z", "\"", ":", "0", "}", " ">>,
                  <<" ", "a", " ", "\"", "q", "{", "\"", " ", "b">>}
        fences == {<<Fence \o JsonTag \o <<"\n">>, <<"\n">> \o Fence>>,
                   <<Fence \o <<"\n">>, <<"\n">> \o Fence>>,
                   <<Fence \o JsonTag \o <<" ">>, <<" ">> \o Fence>>,
                   <<Fence \o JsonTag, Fence>>,
                   <<Fence, Fence>>}
    IN  {[form |-> "fenced", parts |-> <<pre, f[1], v, f[2], post>>] :
            pre \in prose, f \in fences, v \in JsonValues, post \in prose}

\* two fenced blocks, each on lines of its own and tagged or not, the content
\* of each a JSON value or the word no
TwoFences ==
    LET opening == {Fence \o JsonTag \o <<"\n">>, Fence \o <<"\n">>}
        closing == <<"\n">> \o Fence
        content == JsonValues \cup {<<"n", "o">>}
    IN  {[form |-> "fences", parts |-> <<o1, c1, closing, sep, o2, c2, closing>>] :
            o1 \in opening, c1 \in content, sep \in {<<"\n">>, <<" ", "o", "r", "\n">>},
            o2 \in opening, c2 \in content}

InitValidator ==
    /\ Idle
    /\ ReportUnused
    /\ DriverUnused
    /\ pieces \in {d \in TwoValues : Len(d.parts[2]) # Len(d.parts[4])} \cup FencedValue
                    \cup TwoFences
                    \cup {[form |-> "scalar", parts |-> <<pre, v, post>>] :
                             pre \in {<<>>, <<" ">>},
                             v \in {<<"5">>, <<"-", "1", ".", "5">>, <<"\"", "s", "\"">>,
                                    <<"t", "r", "u", "e">>, <<"f", "a", "l", "s", "e">>,
                                    <<"n", "u", "l", "l">>},
                             post \in {<<>>, <<"\n">>}}
    /\ response_text = ConcatTexts(pieces.parts)
    /\ verdict = NoneVal

Validate ==
    /\ verdict = NoneVal
    /\ pieces.form # "none"
    /\ verdict' = ValidateJsonWithCleaning(response_text)
    /\ UNCHANGED <<pieces, response_text, engine, report, driver>>

NextValidator == Validate

SpecValidator == InitValidator /\ [][NextValidator]_vars

(***************************************************************************)
(* ReportGenerator.generate_report called with raw_metrics_df.  Latencies  *)
(* are in ms, token counts are integers and costs micro-dollars, as in the *)
(* records.  In a summary row the latency statistics and the token means   *)
(* are in tenths (round(x, 1)), json_valid_pct in hundredths of a percent  *)
(* (round(x, 2)) and the costs in micro-dollars (round(x, 6)).  A value    *)
(* that lies halfway between two roundings and that a binary float cannot  *)
(* hold is rounded to either side.                                         *)
(***************************************************************************)
MaxRecords == 3

RawRecord(name, status, latency, tokens_in, tokens_out, cost, valid) ==
    [model_name |-> name, status |-> status, latency_ms |-> latency,
     input_tokens |-> tokens_in, output_tokens |-> tokens_out, cost_usd_total |-> cost,
     json_valid |-> valid]

\* the records of two models "M" and "N": successes, and the record of a call
\* that failed after 999 ms (evaluator.py, lines 179-204)
RawRecords ==
    {RawRecord("M", "success", 100, 1, 7, 1, "True"),
     RawRecord("M", "success", 101, 2, 7, 2, "False"),
     RawRecord("M", "success", 200, 2, 4, 12, "None"),
     RawRecord("M", "success", 300, 4, 1, 30, "True"),
     RawRecord("M", "error", 999, 5, 0, 0, "False"),
     RawRecord("N", "success", 100, 3, 3, 5, "True"),
     RawRecord("N", "error", 999, 5, 0, 0, "False")}

Column(df, col) == [k \in DOMAIN df |-> df[k][col]]

RECURSIVE Sum(_)
Sum(series) == IF series = <<>> THEN 0 ELSE Head(series) + Sum(Tail(series))

\* Series.min(), Series.max() of a series that is not empty
SeriesMin(series) == CHOOSE x \in {series[k] : k \in DOMAIN series} :
                         \A k \in DOMAIN series : x <= series[k]

SeriesMax(series) == CHOOSE x \in {series[k] : k \in DOMAIN series} :
                         \A k \in DOMAIN series : x >= series[k]

\* the values of a series in ascending order
RECURSIVE SortValues(_)
SortValues(series) ==
    IF series = <<>> THEN <<>>
    ELSE LET k == CHOOSE i \in DOMAIN series : series[i] = SeriesMin(series)
         IN  <<series[k]>> \o SortValues(SubSeq(series, 1, k - 1)
                                             \o SubSeq(series, k + 1, Len(series)))

\* Series.quantile(p) with the default interpolation, "linear", for p = pct / 100,
\* in hundredths: the value at rank (n - 1) * p of the sorted values
Quantile(series, pct) ==
    LET x == SortValues(series)
        rank == (Len(x) - 1) * pct
        lower == rank \div 100 + 1
        fraction == rank % 100
        upper == IF fraction = 0 THEN lower ELSE lower + 1
    IN  100 * x[lower] + fraction * (x[upper] - x[lower])

\* the lower of the two nearest ranks instead of their interpolation
PercentileLower(series, pct) ==
    IF series = <<>> THEN 0
    ELSE 100 * SortValues(series)[((Len(series) - 1) * pct) \div 100 + 1]

\* percentile, lines 9-13, in hundredths
Percentile(series, pct) ==
    IF series = <<>> THEN 0 ELSE Quantile(series, pct)

\* round() of num / den to an integer: half-way cases go to the even side,
\* or, when the float is not exact, up or down as `up` says
RoundRatio(num, den, exact, up) ==
    LET q == num \div den
        r == num % den
    IN  IF 2 * r > den THEN q + 1
        ELSE IF 2 * r < den THEN q
        ELSE IF exact THEN (IF q % 2 = 1 THEN q + 1 ELSE q)
        ELSE IF up THEN q + 1 ELSE q

\* the statistics whose half-way cases are not exact floats
TieFields == {"p95", "p99", "avg_cost"}

\* the key of a group when the iteration over the groups yields the 1-tuple
\* of the name instead of the name: written as its repr()
KeyRepr(name) == IF name = "M" THEN "('M',)" ELSE "('N',)"

\* lines 106-124: the row of one group; group holds its success records
SummaryRow(df, model_name, group, up) ==
    LET total_count == Len(group)
        latency == Column(group, "latency_ms")
        json_valid_count == Len(SelectSeq(group, LAMBDA r : r.json_valid = "True"))
        \* df["model_name"] == model_name, element by element: no name equals a tuple
        IsModel(r) == r.model_name = model_name
    IN  [model_name |-> model_name,
         count |-> total_count,
         success_count |-> total_count,
         error_count |-> Len(SelectSeq(df, LAMBDA r : IsModel(r) /\ r.status = "error")),
         avg_input_tokens |->
             RoundRatio(10 * Sum(Column(group, "input_tokens")), total_count, TRUE, FALSE),
         avg_output_tokens |->
             RoundRatio(10 * Sum(Column(group, "output_tokens")), total_count, TRUE, FALSE),
         p50_latency_ms |-> RoundRatio(Percentile(latency, 50), 10, TRUE, FALSE),
         p95_latency_ms |-> RoundRatio(Percentile(latency, 95), 10, FALSE, up["p95"]),
         p99_latency_ms |-> RoundRatio(Percentile(latency, 99), 10, FALSE, up["p99"]),
         min_latency_ms |-> 10 * SeriesMin(latency),
         max_latency_ms |-> 10 * SeriesMax(latency),
         json_valid_pct |-> RoundRatio(10000 * json_valid_count, total_count, TRUE, FALSE),
         avg_cost_usd_per_request |->
             RoundRatio(Sum(Column(group, "cost_usd_total")), total_count, FALSE,
                        up["avg_cost"]),
         total_cost_usd |-> Sum(Column(group, "cost_usd_total"))]

\* the names of the groups of success_df.groupby(["model_name"]), in key order
RECURSIVE GroupNames(_, _)
GroupNames(success_df, names) ==
    IF names = <<>> THEN <<>>
    ELSE (IF \E k \in DOMAIN success_df : success_df[k].model_name = Head(names)
          THEN <<Head(names)>> ELSE <<>>) \o GroupNames(success_df, Tail(names))

\* generate_report, lines 24-135, for raw_metrics_df = df: the summary rows,
\* sorted by model_name; an empty frame for an empty df or no success record
GenerateReportRows(df, as_tuple, up) ==
    LET success_df == SelectSeq(df, LAMBDA r : r.status = "success")
        names == GroupNames(success_df, <<"M", "N">>)
    IN  [k \in DOMAIN names |->
            SummaryRow(df, IF as_tuple THEN KeyRepr(names[k]) ELSE names[k],
                       SelectSeq(success_df, LAMBDA r : r.model_name = names[k]), up)]

InitReport ==
    /\ Idle
    /\ ValidatorUnused
    /\ DriverUnused
    /\ raw_metrics_df \in UNION {[1 .. n -> RawRecords] : n \in 0 .. MaxRecords}
    /\ agg_df = [returned |-> FALSE, rows |-> <<>>]
    /\ tuple_keys \in BOOLEAN

GenerateReport ==
    /\ ~agg_df.returned
    /\ \E up \in [TieFields -> BOOLEAN] :
           agg_df' = [returned |-> TRUE,
                      rows |-> GenerateReportRows(raw_metrics_df, tuple_keys, up)]
    /\ UNCHANGED <<raw_metrics_df, tuple_keys, engine, validator, driver>>

NextReport == GenerateReport

SpecReport == InitReport /\ [][NextReport]_vars

(***************************************************************************)
(* scripts/run_evaluation.py, main: the loop over the prompt rows and the  *)
(* models, the records it collects, and raw_metrics.csv.  What a call of   *)
(* evaluate_prompt does is above; here it returns a record or raises.      *)
(* KeyboardInterrupt may be raised wherever main is inside its try block.  *)
(***************************************************************************)
\* the models of args.models
DriverModels == <<"M", "N">>

\* the record evaluate_prompt returns for a prompt and a model
Evaluated(prompt_id, name) ==
    {r @@ [prompt_id |-> prompt_id] : r \in {x \in RawRecords : x.model_name = name}}

\* lines 179-195: error_metric
ErrorMetric(prompt_id, name) ==
    RawRecord(name, "error", 0, 0, 0, 0, "False") @@ [prompt_id |-> prompt_id]

\* MetricsLogger.log_metrics, lines 26-57: the row written for a record.
\* json_valid goes through astype(str), replace and to_numeric: None is False
CsvRow(r) ==
    [prompt_id |-> r.prompt_id, model_name |-> r.model_name, status |-> r.status,
     latency_ms |-> r.latency_ms, input_tokens |-> r.input_tokens,
     output_tokens |-> r.output_tokens, cost_usd_total |-> r.cost_usd_total,
     json_valid |-> (r.json_valid = "True")]

\* only the last record is written
LogMetricsLast(csv, metrics_list) ==
    IF metrics_list = <<>> THEN csv
    ELSE [exists |-> TRUE,
          rows |-> csv.rows \o <<CsvRow(metrics_list[Len(metrics_list)])>>]

\* MetricsLogger.log_metrics on a file that is absent or readable: nothing
\* for an empty list, else the rows are appended (the header first if the
\* file is new)
LogMetrics(csv, metrics_list) ==
    IF metrics_list = <<>> THEN csv
    ELSE [exists |-> TRUE,
          rows |-> csv.rows \o [k \in DOMAIN metrics_list |-> CsvRow(metrics_list[k])]]

InitDriver ==
    /\ Idle
    /\ ValidatorUnused
    /\ raw_metrics_df = <<>>
    /\ agg_df = [returned |-> FALSE, rows |-> <<>>]
    /\ tuple_keys \in BOOLEAN
    /\ prompts_df \in {<<[prompt_id |-> 1, blank |-> a], [prompt_id |-> 2, blank |-> b]>> :
                           a, b \in BOOLEAN}
    /\ at = "loop"
    /\ row_idx = 1
    /\ model_idx = 1
    /\ collected = <<>>
    /\ raw_csv \in {[exists |-> FALSE, rows |-> <<>>],
                    [exists |-> TRUE, rows |-> <<CsvRow(ErrorMetric(0, "M"))>>]}
    /\ interrupted = "no"

\* pbar.update(1) and the next iteration of the two for loops
NextPair ==
    IF model_idx < Len(DriverModels)
    THEN model_idx' = model_idx + 1 /\ row_idx' = row_idx
    ELSE model_idx' = 1 /\ row_idx' = row_idx + 1

\* lines 154-156: a row without a prompt is passed over
PassRow ==
    /\ at = "loop"
    /\ row_idx <= Len(prompts_df)
    /\ prompts_df[row_idx].blank
    /\ row_idx' = row_idx + 1
    /\ UNCHANGED <<model_idx, at, collected, raw_csv, interrupted, prompts_df,
                   engine, validator, report>>

\* line 160: evaluate_prompt is entered
CallEvaluate ==
    /\ at = "loop"
    /\ row_idx <= Len(prompts_df)
    /\ ~prompts_df[row_idx].blank
    /\ at' = "call"
    /\ UNCHANGED <<row_idx, model_idx, collected, raw_csv, interrupted, prompts_df,
                   engine, validator, report>>

\* lines 160-175: it returns a record, which is collected
CallReturns ==
    /\ at = "call"
    /\ \E metrics \in Evaluated(prompts_df[row_idx].prompt_id, DriverModels[model_idx]) :
           collected' = Append(collected, metrics)
    /\ NextPair
    /\ at' = "loop"
    /\ UNCHANGED <<raw_csv, interrupted, prompts_df, engine, validator, report>>

\* lines 177-195: it raises an Exception, and an error record is collected
CallRaises ==
    /\ at = "call"
    /\ collected' = Append(collected, ErrorMetric(prompts_df[row_idx].prompt_id,
                                                  DriverModels[model_idx]))
    /\ NextPair
    /\ at' = "loop"
    /\ UNCHANGED <<raw_csv, interrupted, prompts_df, engine, validator, report>>

\* line 199: the loops are over
LoopEnds ==
    /\ at = "loop"
    /\ row_idx > Len(prompts_df)
    /\ at' = "save"
    /\ UNCHANGED <<row_idx, model_idx, collected, raw_csv, interrupted, prompts_df,
                   engine, validator, report>>

\* lines 201-204: the collected records are logged
SaveMetrics ==
    /\ at = "save"
    /\ raw_csv' = LogMetrics(raw_csv, collected)
    /\ at' = "saved"
    /\ UNCHANGED <<row_idx, model_idx, collected, interrupted, prompts_df, engine,
                   validator, report>>

\* lines 206-220: unless args.skip_report, the report is generated from the
\* collected records; then main returns
Finish ==
    /\ at = "saved"
    /\ \/ UNCHANGED <<raw_metrics_df, agg_df>>
       \/ /\ raw_metrics_df' = collected
          /\ \E up \in [TieFields -> BOOLEAN] :
                 agg_df' = [returned |-> TRUE,
                            rows |-> GenerateReportRows(collected, tuple_keys, up)]
    /\ at' = "done"
    /\ UNCHANGED <<row_idx, model_idx, collected, raw_csv, interrupted, prompts_df,
                   tuple_keys, engine, validator>>

\* lines 222-227: KeyboardInterrupt inside the try block, in the loop, inside
\* a call, before log_metrics of line 203 has begun, or after it has returned
\* (while the report is generated): the collected records are logged and
\* main exits
Interrupt ==
    /\ at \in {"loop", "call", "save", "saved"}
    /\ raw_csv' = LogMetrics(raw_csv, collected)
    /\ interrupted' = at
    /\ at' = "exit"
    /\ UNCHANGED <<row_idx, model_idx, collected, prompts_df, engine, validator, report>>

NextDriver ==
    \/ PassRow
    \/ CallEvaluate
    \/ CallReturns
    \/ CallRaises
    \/ LoopEnds
    \/ SaveMetrics
    \/ Finish
    \/ Interrupt

SpecDriver == InitDriver /\ [][NextDriver]_vars

(***************************************************************************)
(* Vocabulary of the properties.                                           *)
(***************************************************************************)
\* the call observed by obs has returned or raised, and its record is the
\* last of all_metrics
CallOver == obs.outcome # "none"

LastRecord == all_metrics[Len(all_metrics)]

\* the descriptor, the prompt row and the initial queue of the observed call
CallModel == models[built[Len(built)].model]

CallRow == prompts[built[Len(built)].row]

InitialQueue == built[Len(built)].variants

NoRepeats(xs) == \A i, j \in DOMAIN xs : xs[i] = xs[j] => i = j

(***************************************************************************)
(* C1: once an attempt of a call has failed with an entitlement-class      *)
(* error, that call issues no further invocation and appends no alias.     *)
(* The single-turn path breaks it: _invoke_model_direct has no entitlement *)
(* test, so a message that also mentions an inference profile sends the    *)
(* loop on to the next variant.                                            *)
(***************************************************************************)
C1_NoInvocationAfterEntitlement ==
    obs.denied_at # 0 =>
        /\ Len(tried) = obs.denied_at
        /\ Len(model_id_variants) = obs.denied_len

C3_InvocationsBounded ==
    built # <<>> =>
        /\ Len(tried) <= 2 * Len(InitialQueue)
        /\ Len(model_id_variants) <= 2 * Len(InitialQueue)
        /\ pc = "attempt" => vi <= Len(model_id_variants)

\* every attempt was answered with a validation error asking for an inference
\* profile, the queue grew while it was iterated, and the loop ended
C3_Witness ==
    /\ obs.outcome = "exhausted"
    /\ obs.transient_at = 0
    /\ obs.denied_at = 0
    /\ Len(tried) > Len(InitialQueue)
    /\ \A k \in 1 .. Len(all_metrics) : all_metrics[k].status = "error"
    /\ "inference profile" \in LastRecord.error.has

(***************************************************************************)
(* C4: a call in which a later variant succeeds after validation-class     *)
(* failures yields a record with status = success and error = None, and    *)
(* no field of the record holds the text of an earlier failure.            *)
(***************************************************************************)
C4_SuccessHidesEarlierFailures ==
    (obs.outcome = "returned" /\ Len(tried) > 1) =>
        /\ LastRecord.status = "success"
        /\ LastRecord.error = NoneVal
        /\ LastRecord.error # last_error

C4_Witness ==
    /\ obs.outcome = "returned"
    /\ Len(tried) > 1
    /\ obs.transient_at = 0
    /\ obs.denied_at = 0
    /\ last_error # NoneVal
    /\ LastRecord.status = "success"

(***************************************************************************)
(* C5: a batch never raises to its caller, and when it is done it holds    *)
(* exactly one record for every (non-empty prompt, model) pair, in         *)
(* prompt-major then model order.  The estimate of step 1 is computed      *)
(* before the try block, so an exception of count_tokens leaves            *)
(* evaluate_prompts_batch.                                                 *)
(***************************************************************************)
RECURSIVE PairsFrom(_)
PairsFrom(p) ==
    IF p > Len(prompts) THEN <<>>
    ELSE (IF prompts[p].prompt = <<>> THEN <<>>
          ELSE [k \in 1 .. Len(models) |->
                   [prompt_id |-> prompts[p].prompt_id, model_name |-> models[k].name]])
         \o PairsFrom(p + 1)

C5_OneRecordPerPair ==
    /\ pc # "raised"
    /\ pc = "done" =>
          [k \in 1 .. Len(all_metrics) |->
              [prompt_id |-> all_metrics[k].prompt_id,
               model_name |-> all_metrics[k].model_name]] = PairsFrom(1)

(***************************************************************************)
(* C6 as claimed: in us-east-2, for a descriptor whose id starts with no   *)
(* region alias and whose flag is false, the initial queue is, after       *)
(* order-preserving deduplication, the qualified id, the version-stripped  *)
(* qualified form (as _invoke_converse builds it, with ":0"), the id and   *)
(* the version-stripped id, on both protocols and for every provider.      *)
(***************************************************************************)
RECURSIVE KeepFirst(_, _)
KeepFirst(xs, i) ==
    IF i > Len(xs) THEN <<>>
    ELSE (IF \E j \in 1 .. i - 1 : xs[j] = xs[i] THEN <<>> ELSE <<xs[i]>>)
         \o KeepFirst(xs, i + 1)

QualifiedThenPlain(id) ==
    <<UsPrefixed(id), UsPrefixed(WithoutSuffix(id)) \o <<":", "0">>, id>>

C6_QueueOrderEveryProtocol ==
    (/\ built # <<>>
     /\ region = "us-east-2"
     /\ ~CallModel.use_inference_profile
     /\ ~StartsWith(CallModel.bedrock_model_id, "us.")
     /\ ~StartsWith(CallModel.bedrock_model_id, "global.")) =>
        InitialQueue = KeepFirst(QualifiedThenPlain(CallModel.bedrock_model_id)
                                    \o <<WithoutSuffix(CallModel.bedrock_model_id)>>, 1)

(***************************************************************************)
(* C6 amended: in us-east-2, for a descriptor whose flag is false and      *)
(* whose id holds neither "us." nor "global." anywhere, the initial queue  *)
(* is, after order-preserving deduplication: on the chat-style protocol    *)
(* us.<id>, us.<stripped id>:0, <id>, <stripped id>; on the single-turn    *)
(* protocol us.<id>, us.<stripped id>:0, <id>, followed only for a meta    *)
(* provider or a llama id by <stripped id> (when the id has a version)     *)
(* and <id>:0 (when it has none).  An id that holds "us." or "global."     *)
(* anywhere is queued alone.                                                *)
(***************************************************************************)
C6_QueueOrderPerProtocol ==
    (built # <<>> /\ region = "us-east-2" /\ ~CallModel.use_inference_profile) =>
        LET id == CallModel.bedrock_model_id
            llama == CallModel.provider = "meta" \/ Contains(id, "llama")
        IN  IF Contains(id, "us.") \/ Contains(id, "global.")
            THEN InitialQueue = <<id>>
            ELSE IF UsesConverse(CallModel)
            THEN InitialQueue = KeepFirst(QualifiedThenPlain(id) \o <<WithoutSuffix(id)>>, 1)
            ELSE InitialQueue =
                    KeepFirst(QualifiedThenPlain(id)
                        \o (IF llama /\ Contains(id, ":") THEN <<WithoutSuffix(id)>> ELSE <<>>)
                        \o (IF llama /\ ~Contains(id, ":") THEN <<id \o <<":", "0">>>> ELSE <<>>),
                        1)

\* a single-turn call of a versioned non-meta id: the stripped id is not queued
C6_Witness ==
    /\ built # <<>>
    /\ region = "us-east-2"
    /\ CallModel = Qwen
    /\ pc = "attempt"
    /\ InitialQueue = <<UsPrefixed(Qwen.bedrock_model_id), <<"us.", "qwen", ":", "0">>,
                        Qwen.bedrock_model_id>>

C8_LatencyOfWinningAttempt ==
    obs.outcome = "returned" => LastRecord.latency_ms = obs.won_ms

(***************************************************************************)
(* C8 amended: latency_ms is the whole time between entering and leaving   *)
(* the Stopwatch around _invoke_model: every attempt of the call, the      *)
(* failed ones included, and the follow-up token-count call of the         *)
(* single-turn protocol.                                                   *)
(***************************************************************************)
C8_LatencyOfWholeCall ==
    CallOver => LastRecord.latency_ms = obs.spent

C8_Witness ==
    /\ obs.outcome = "returned"
    /\ Len(tried) > 1
    /\ LastRecord.latency_ms > obs.won_ms
    /\ LastRecord.latency_ms = obs.spent

(***************************************************************************)
(* C9: the amazon scenario (descriptor M, id-1, prices 0.002 / 0.006,      *)
(* prompt hello, body with usage.tokenCount = 5 beside results) gives      *)
(* status = success, output_tokens = 5, json_valid = true and              *)
(* cost_usd_output = 0.00003 (30 micro-dollars).  The amazon branch looks  *)
(* for usage inside results[0], finds none and estimates one token.        *)
(***************************************************************************)
C9_AmazonScenario ==
    (/\ obs.outcome = "returned"
     /\ CallModel = Titan
     /\ CallRow.prompt = TxtHello
     /\ obs.reply = BodyUsageBeside) =>
        /\ LastRecord.status = "success"
        /\ LastRecord.output_tokens = 5
        /\ LastRecord.json_valid = "True"
        /\ LastRecord.cost_usd_output = 30

C11_AggregatedErrorListsAttempts ==
    obs.outcome = "exhausted" =>
        /\ LastRecord.status = "error"
        /\ "All attempted model IDs" \in LastRecord.error.has
        /\ LastRecord.error.attempted = tried

(***************************************************************************)
(* C12 as claimed: a call that returned a non-blank text in which the      *)
(* validator locates no payload, neither as it is nor after the removal    *)
(* of the known prefixes and suffixes, gives status = success,             *)
(* error = None and json_valid = false, whether JSON was expected or not.  *)
(* A text whose token count is 0 is handled as an empty one (line 108).    *)
(***************************************************************************)
C12_NoPayloadIsInvalidNotError ==
    (/\ obs.outcome = "returned"
     /\ StripText(LastRecord.response) # <<>>
     /\ ~ValidateJsonWithCleaning(LastRecord.response).valid
     /\ ~ValidateJsonWithCleaning(CleanedResponse(LastRecord.response)).valid) =>
        /\ LastRecord.status = "success"
        /\ LastRecord.error = NoneVal
        /\ LastRecord.json_valid = "False"

\* the text the model generated, as the reply of the endpoint carries it
GeneratedText ==
    IF UsesConverse(CallModel) THEN ConcatTexts(obs.reply.content)
    ELSE IF "generation" \in DOMAIN obs.reply THEN obs.reply.generation
    ELSE IF "results" \in DOMAIN obs.reply THEN obs.reply.results[1].outputText
    ELSE obs.reply.completion

(***************************************************************************)
(* C13 as claimed: a call that returned an empty or white-space-only       *)
(* generated text has json_valid = false when JSON was expected and        *)
(* json_valid = None when it was not, for every provider family.  The meta *)
(* branch replaces such a text by a diagnostic one, which is then          *)
(* validated like a generated text.                                        *)
(***************************************************************************)
C13_BlankTextNeverValid ==
    (obs.outcome = "returned" /\ StripText(GeneratedText) = <<>>) =>
        LastRecord.json_valid = IF CallRow.expected_json THEN "False" ELSE "None"

\* the ends of the substrings of t that start at index i and that json.loads accepts
ParsedEnds(t, i) == IF i = 0 THEN {} ELSE {j \in i .. Len(t) : JsonLoads(SubSeq(t, i, j))}

Validated(form) == pieces.form = form /\ verdict # NoneVal

LongerValue == IF Len(pieces.parts[2]) > Len(pieces.parts[4]) THEN pieces.parts[2]
               ELSE pieces.parts[4]

(***************************************************************************)
(* C14 as claimed: for a text that holds two valid bracketed substrings of *)
(* different lengths among prose, without a fenced block, the validator    *)
(* returns (true, the longer substring).                                   *)
(***************************************************************************)
C14_LongerSubstringReturned ==
    Validated("two") => verdict = Valid(LongerValue)

(***************************************************************************)
(* C14 as the code has it: for such a text, with no bracket or brace in    *)
(* the prose, the validator returns (true, s) where s is the substring     *)
(* that starts at the first opening brace of the text and parses, when     *)
(* there is one, and otherwise the substring that starts at the first      *)
(* opening square bracket and parses.  s may be the shorter of the two     *)
(* substrings, or an object nested in one of them.                        *)
(***************************************************************************)
C14_FirstBalancedReturned ==
    Validated("two") =>
        LET t == StripText(response_text)
            braces == ParsedEnds(t, IndexFrom(t, <<"{">>, 1))
            squares == ParsedEnds(t, IndexFrom(t, <<"[">>, 1))
        IN  /\ verdict.valid
            /\ IF braces # {}
               THEN \E j \in braces :
                        verdict.cleaned = SubSeq(t, IndexFrom(t, <<"{">>, 1), j)
               ELSE \E j \in squares :
                        verdict.cleaned = SubSeq(t, IndexFrom(t, <<"[">>, 1), j)

\* the validator returned the shorter of the two substrings
C14_Witness ==
    /\ Validated("two")
    /\ verdict.valid
    /\ verdict.cleaned \in {pieces.parts[2], pieces.parts[4]}
    /\ verdict.cleaned # LongerValue

C16_TotalOfRecordedComponents ==
    obs.outcome = "returned" =>
        /\ LastRecord.cost_usd_input = Round6(LastRecord.input_tokens * CallModel.price_in)
        /\ LastRecord.cost_usd_output = Round6(LastRecord.output_tokens * CallModel.price_out)
        /\ LastRecord.cost_usd_total = LastRecord.cost_usd_input + LastRecord.cost_usd_output

(***************************************************************************)
(* C16 as the code has it: the component costs are as claimed, and         *)
(* cost_usd_total is the rounded sum of the unrounded products.  It is     *)
(* within one micro-dollar of the sum of the recorded components, and is   *)
(* 0 when a token count or its price is 0 on both sides.                   *)
(***************************************************************************)
C16_TotalOfUnroundedComponents ==
    obs.outcome = "returned" =>
        LET nano_in == LastRecord.input_tokens * CallModel.price_in
            nano_out == LastRecord.output_tokens * CallModel.price_out
            gap == LastRecord.cost_usd_total
                       - (LastRecord.cost_usd_input + LastRecord.cost_usd_output)
        IN  /\ LastRecord.cost_usd_input = Round6(nano_in)
            /\ LastRecord.cost_usd_output = Round6(nano_out)
            /\ LastRecord.cost_usd_total = Round6(nano_in + nano_out)
            /\ gap \in {-1, 0, 1}
            /\ (nano_in = 0 /\ nano_out = 0) => LastRecord.cost_usd_total = 0

\* both recorded components are 0 and the recorded total is not
C16_Witness ==
    /\ obs.outcome = "returned"
    /\ LastRecord.input_tokens > 0
    /\ LastRecord.output_tokens > 0
    /\ LastRecord.cost_usd_input = 0
    /\ LastRecord.cost_usd_output = 0
    /\ LastRecord.cost_usd_total = 1

\* the model a summary row is about, the records a report was made from
RowModel(row) == CHOOSE n \in {"M", "N"} : row.model_name \in {n, KeyRepr(n)}

RecordsOf(name, status) ==
    SelectSeq(raw_metrics_df, LAMBDA r : r.model_name = name /\ r.status = status)

SuccessLatencies(name) == Column(RecordsOf(name, "success"), "latency_ms")

Distance(a, b) == IF a >= b THEN a - b ELSE b - a

\* what C17 says of one record and of the latencies 100, 200, 300
C17_Scenarios(row) ==
    LET latency == SuccessLatencies(RowModel(row))
    IN  /\ Len(latency) = 1 =>
               /\ row.p50_latency_ms = 10 * latency[1]
               /\ row.p95_latency_ms = 10 * latency[1]
               /\ row.p99_latency_ms = 10 * latency[1]
               /\ row.min_latency_ms = 10 * latency[1]
               /\ row.max_latency_ms = 10 * latency[1]
        /\ SortValues(latency) = <<100, 200, 300>> =>
               /\ row.p50_latency_ms = 2000
               /\ row.min_latency_ms = 1000
               /\ row.max_latency_ms = 3000

(***************************************************************************)
(* C17 as claimed: in every summary row p50, p95 and p99 are the           *)
(* linear-interpolation percentiles of the latencies of the model's        *)
(* success records (the value at rank (n-1)p, interpolated between the two *)
(* nearest ranks); one record of latency L gives p50 = p95 = p99 = min =   *)
(* max = L, and the latencies 100, 200, 300 give p50 = 200, min = 100,     *)
(* max = 300.                                                              *)
(***************************************************************************)
C17_PercentilesInterpolated ==
    agg_df.returned =>
        \A k \in DOMAIN agg_df.rows :
            LET row == agg_df.rows[k]
                latency == SuccessLatencies(RowModel(row))
            IN  /\ 10 * row.p50_latency_ms = Quantile(latency, 50)
                /\ 10 * row.p95_latency_ms = Quantile(latency, 95)
                /\ 10 * row.p99_latency_ms = Quantile(latency, 99)
                /\ C17_Scenarios(row)

(***************************************************************************)
(* C17 as the code has it: p50, p95 and p99 are those percentiles rounded  *)
(* to one decimal, min and max are the least and the greatest latency, and *)
(* the two scenarios hold as claimed.                                      *)
(***************************************************************************)
C17_PercentilesRounded ==
    agg_df.returned =>
        \A k \in DOMAIN agg_df.rows :
            LET row == agg_df.rows[k]
                latency == SuccessLatencies(RowModel(row))
            IN  /\ Distance(10 * row.p50_latency_ms, Quantile(latency, 50)) <= 5
                /\ Distance(10 * row.p95_latency_ms, Quantile(latency, 95)) <= 5
                /\ Distance(10 * row.p99_latency_ms, Quantile(latency, 99)) <= 5
                /\ row.min_latency_ms = 10 * SeriesMin(latency)
                /\ row.max_latency_ms = 10 * SeriesMax(latency)
                /\ C17_Scenarios(row)

\* the report of three success records of "M" with latencies 100, 200, 300
C17_Witness ==
    /\ agg_df.returned
    /\ SortValues(SuccessLatencies("M")) = <<100, 200, 300>>
    /\ Len(agg_df.rows) = 1
    /\ agg_df.rows[1].p50_latency_ms = 2000
    /\ agg_df.rows[1].p95_latency_ms = 2900
    /\ agg_df.rows[1].p99_latency_ms = 2980
    /\ agg_df.rows[1].min_latency_ms = 1000
    /\ agg_df.rows[1].max_latency_ms = 3000

\* the statistics of a summary row
Statistics(row) ==
    [f \in {"count", "success_count", "avg_input_tokens", "avg_output_tokens",
            "p50_latency_ms", "p95_latency_ms", "p99_latency_ms", "min_latency_ms",
            "max_latency_ms", "json_valid_pct", "avg_cost_usd_per_request",
            "total_cost_usd"} |-> row[f]]

(***************************************************************************)
(* C18 as claimed: the statistics of every summary row are those of the    *)
(* model's success records alone (the report of the same records without   *)
(* the error records has the same statistics), and error_count is the      *)
(* number of the model's records with status = error.  Where the key of a  *)
(* group is a 1-tuple, no record matches it and error_count is 0.          *)
(***************************************************************************)
C18_StatisticsOfSuccessRecords ==
    agg_df.returned =>
        LET successes == SelectSeq(raw_metrics_df, LAMBDA r : r.status = "success")
        IN  \A k \in DOMAIN agg_df.rows :
                LET row == agg_df.rows[k]
                IN  /\ \E up \in [TieFields -> BOOLEAN] :
                           LET alone == GenerateReportRows(successes, tuple_keys, up)
                           IN  /\ k \in DOMAIN alone
                               /\ Statistics(alone[k]) = Statistics(row)
                    /\ row.count = Len(RecordsOf(RowModel(row), "success"))
                    /\ row.error_count = Len(RecordsOf(RowModel(row), "error"))

\* the models that occur in the records
ModelsOf(df) == {df[k].model_name : k \in DOMAIN df}

(***************************************************************************)
(* C19 as claimed: the report has one summary row for every model that     *)
(* occurs in the records; a model whose records are all errors has a row   *)
(* with 0 for its statistics and with its error count.  The groups are     *)
(* made of the success records, so such a model has no row.                *)
(***************************************************************************)
C19_RowForEveryModel ==
    agg_df.returned =>
        \A n \in ModelsOf(raw_metrics_df) :
            /\ Cardinality({k \in DOMAIN agg_df.rows : RowModel(agg_df.rows[k]) = n}) = 1
            /\ RecordsOf(n, "success") = <<>> =>
                   \E k \in DOMAIN agg_df.rows :
                       /\ RowModel(agg_df.rows[k]) = n
                       /\ agg_df.rows[k].p50_latency_ms = 0
                       /\ agg_df.rows[k].total_cost_usd = 0
                       /\ agg_df.rows[k].error_count = Len(RecordsOf(n, "error"))

\* the rows that the run wrote: an earlier run's rows have prompt_id 0
RunRows == SelectSeq(raw_csv.rows, LAMBDA w : w.prompt_id # 0)

(***************************************************************************)
(* C20: when KeyboardInterrupt ends the driver inside its evaluation loop, *)
(* every record that was collected before it is a row of raw_metrics.csv   *)
(* when the process exits: the run's rows are the collected records, one   *)
(* row each and in their order, and the rows of earlier runs are kept.     *)
(***************************************************************************)
C20_InterruptPersistsCollected ==
    (at = "exit" /\ interrupted # "saved") =>
        /\ Len(RunRows) = Len(collected)
        /\ \A k \in DOMAIN collected :
               /\ RunRows[k].prompt_id = collected[k].prompt_id
               /\ RunRows[k].model_name = collected[k].model_name
               /\ RunRows[k].status = collected[k].status
               /\ RunRows[k].latency_ms = collected[k].latency_ms
        /\ collected # <<>> => raw_csv.exists
        /\ Len(raw_csv.rows) - Len(RunRows) \in {0, 1}

\* the interrupt came inside the third call: two records, of a success and
\* of an error, had been collected and are both in the file after an earlier row
C20_Witness ==
    /\ at = "exit"
    /\ interrupted = "call"
    /\ Len(collected) = 2
    /\ collected[1].status = "success"
    /\ collected[2].status = "error"
    /\ Len(raw_csv.rows) = 3
    /\ raw_csv.rows[3].prompt_id = collected[2].prompt_id

\* the call that was running when the interrupt came
InFlight == [prompt_id |-> prompts_df[row_idx].prompt_id, model_name |-> DriverModels[model_idx]]

(***************************************************************************)
(* C21 as claimed: when KeyboardInterrupt arrives while a call of          *)
(* evaluate_prompt is running, that call runs to its end and its record is *)
(* collected and written before the driver stops.  KeyboardInterrupt is no *)
(* Exception: neither evaluate_prompt (line 179) nor the loop (line 176)   *)
(* catches it, so the call is abandoned and has no record.                 *)
(***************************************************************************)
C21_InFlightCallCompletes ==
    (at = "exit" /\ interrupted = "call") =>
        /\ \E k \in DOMAIN collected :
               /\ collected[k].prompt_id = InFlight.prompt_id
               /\ collected[k].model_name = InFlight.model_name
        /\ \E k \in DOMAIN RunRows :
               /\ RunRows[k].prompt_id = InFlight.prompt_id
               /\ RunRows[k].model_name = InFlight.model_name

\* a step in which the attempt on the variant at the head of the loop failed
AttemptFailed ==
    /\ pc = "attempt"
    /\ tried' = Append(tried, model_id_variants[vi])
    /\ obs'.outcome # "returned"

\* the failure asks for an inference profile: the test of lines 338, 354,
\* 414 and 428 on the message of the remote error
AsksForProfile == MentionsProfile(obs'.err.marks)

\* what the claim says such a step does with the queue and the loop
AliasStep ==
    LET variant_id == model_id_variants[vi]
        alias == UsPrefixed(variant_id)
        unqualified == ~StartsWith(variant_id, "us.") /\ ~StartsWith(variant_id, "global.")
        queued == \E k \in DOMAIN model_id_variants : model_id_variants[k] = alias
    IN  /\ model_id_variants' = IF unqualified /\ ~queued
                                THEN Append(model_id_variants, alias)
                                ELSE model_id_variants
        /\ obs'.outcome # "raised"
        /\ pc' = "attempt" => vi' = vi + 1
        /\ \A k \in DOMAIN tried' : tried'[k] = model_id_variants'[k]

(***************************************************************************)
(* C23 as claimed: whenever an attempt fails with an error that asks for   *)
(* an inference profile, the alias of an unqualified failing identifier is *)
(* appended to the end of the queue if and only if it is not queued yet,   *)
(* nothing is appended for a qualified one, the loop goes on to the next   *)
(* variant, and variants are attempted in the order of the queue.  On the  *)
(* chat-style path an entitlement-class error is raised before that test.  *)
(***************************************************************************)
C23_AliasAppendedOnHint == [][(AttemptFailed /\ AsksForProfile) => AliasStep]_vars

(***************************************************************************)
(* C23 amended: the same, for every such failure but an entitlement-class  *)
(* error on the chat-style path, which ends the call with nothing appended.*)
(***************************************************************************)
C23_AliasAppendedUnlessDenied ==
    [][(AttemptFailed /\ AsksForProfile) =>
          IF UsesConverse(Model) /\ ErrClass(obs'.err) = "entitlement"
          THEN model_id_variants' = model_id_variants /\ obs'.outcome = "raised"
          ELSE AliasStep]_vars

\* an attempt on an unqualified identifier failed asking for a profile, its
\* alias is the last of the queue now, behind the variants queued before it,
\* and the loop is at the next variant
C23_Witness ==
    /\ pc = "attempt"
    /\ obs.err # NoneVal
    /\ MentionsProfile(obs.err.marks)
    /\ tried # <<>>
    /\ ~StartsWith(tried[Len(tried)], "us.")
    /\ Len(model_id_variants) > Len(InitialQueue)
    /\ model_id_variants[Len(model_id_variants)] = UsPrefixed(tried[Len(tried)])
    /\ vi = Len(tried) + 1
    /\ vi < Len(model_id_variants)

(***************************************************************************)
(* C24 as claimed: of two fenced blocks, tagged or not, the validator      *)
(* returns the content of the first one in the text whose content parses.  *)
(* The patterns of lines 789-796 are tried one after the other, each over  *)
(* the whole text, and the tagged pattern comes first: a tagged block is   *)
(* returned before an untagged block that stands earlier in the text.      *)
(***************************************************************************)
C24_FirstBlockInDocumentOrder ==
    (pieces.form = "fences" /\ verdict # NoneVal) =>
        IF JsonLoads(pieces.parts[2])
        THEN verdict = Valid(pieces.parts[2])
        ELSE JsonLoads(pieces.parts[6]) => verdict = Valid(pieces.parts[6])

(***************************************************************************)
(* C25: the validator reports a text valid only when the payload it        *)
(* returns is a JSON object or a JSON array; a bare scalar (a number, a    *)
(* quoted string, true, false, null) is not reported valid.                *)
(***************************************************************************)
C25_OnlyObjectOrArrayValid ==
    (verdict # NoneVal /\ verdict.valid) => Head(verdict.cleaned) \in {"{", "["}

(***************************************************************************)
(* C26: at every point of the variant loop the queue holds no identifier   *)
(* twice, and no identifier is invoked more than once within one call,     *)
(* also after aliases were appended to the queue.                          *)
(***************************************************************************)
C26_NoIdentifierTwice ==
    /\ NoRepeats(model_id_variants)
    /\ NoRepeats(tried)
    /\ \A i \in DOMAIN tried : tried[i] = model_id_variants[i]

\* an alias appended during the loop was invoked, after every identifier of
\* the initial queue
C26_Witness ==
    /\ built # <<>>
    /\ Len(tried) > Len(built[Len(built)].variants)
    /\ Len(built[Len(built)].variants) > 1
    /\ tried[Len(tried)] = UsPrefixed(tried[1])

C28_ParsingResponseIsValid ==
    \A i \in DOMAIN all_metrics :
        LET r == all_metrics[i] IN
        (r.status = "success" /\ StripText(r.response) # <<>> /\ JsonLoads(r.response))
            => r.json_valid = "True"

(***************************************************************************)
(* C30: in every summary row, count is the number of all records of that   *)
(* model, that is count = success_count + error_count.                     *)
(***************************************************************************)
C30_CountIsSuccessPlusError ==
    agg_df.returned =>
        \A k \in DOMAIN agg_df.rows :
            /\ agg_df.rows[k].count
                  = agg_df.rows[k].success_count + agg_df.rows[k].error_count
            /\ agg_df.rows[k].count
                  = Len(SelectSeq(raw_metrics_df,
                        LAMBDA r : r.model_name = RowModel(agg_df.rows[k])))

(***************************************************************************)
(* C29: in one run of the driver every collected record is written to      *)
(* raw_metrics.csv at most once, wherever KeyboardInterrupt arrives, also  *)
(* when it arrives after the records were logged and while the report is   *)
(* generated.  Then the handler of lines 222-227 logs the same list again. *)
(***************************************************************************)
C29_RecordWrittenAtMostOnce ==
    \A k \in DOMAIN collected :
        Len(SelectSeq(RunRows, LAMBDA w : /\ w.prompt_id = collected[k].prompt_id
                                          /\ w.model_name = collected[k].model_name)) <= 1

(***************************************************************************)
(* Two callers of evaluate_prompt on one BedrockEvaluator, interleaved at  *)
(* the remote invocations.  The instance holds what __init__ assigned      *)
(* (region, the client behind remote); every other value of a call is a    *)
(* local of its own activation of evaluate_prompt and _invoke_*.  Here the *)
(* variables of a call hold one value per activation: caller c evaluates   *)
(* models[c] on prompts[c], pc[c] is its position, all_metrics[c] the      *)
(* record it was returned, obs[c] the answers the endpoint gave it.        *)
(***************************************************************************)
Callers == {1, 2}

\* the activation that holds the locals of caller c
SharedFrame(c) == 1

\* lines 60-90 and 244-279: input_tokens, timer, model_id_variants, last_error
\* and the loop variable are locals, one set per activation
Frame(c) == c

\* _invoke_model, lines 228-233, and the extraction of the protocol it chose
InvocationResult(m, variant_id, a) ==
    IF a.kind = "reply" THEN ConverseResult(a.reply, m.tokenizer)
    ELSE DirectResult(m.provider, variant_id, a.body, m.tokenizer, a.counted)

InitShared ==
    /\ region \in Regions
    /\ models \in {<<Claude, Claude>>, <<Claude, Llama>>, <<Titan, Llama>>}
    /\ prompts = <<PromptRow(1, TxtHello, TRUE),
                   PromptRow(2, <<"s", "a", "y", " ", "h", "i">>, FALSE)>>
    /\ remote = [errors |-> {EValidationProfile,
                             ClientErr("ResourceNotFoundException", {"use case details"})},
                 replies |-> {ConverseReply(<<TxtProse>>, <<>>)},
                 bodies |-> {BodyUsageInside}, generations |-> {BodyGeneration},
                 counted |-> {0}, durs |-> {1}, follows |-> {0}]
    /\ pi = 1
    /\ mi = 1
    /\ pc = <<"start", "start">>
    /\ all_metrics = <<NoneVal, NoneVal>>
    /\ input_tokens = <<0, 0>>
    /\ model_id_variants = <<<<>>, <<>>>>
    /\ vi = <<0, 0>>
    /\ last_error = <<NoneVal, NoneVal>>
    /\ timer_start = <<0, 0>>
    /\ now = 0
    /\ tried = <<<<>>, <<>>>>
    /\ obs = <<<<>>, <<>>>>
    /\ built = <<>>
    /\ ValidatorUnused
    /\ ReportUnused
    /\ DriverUnused

\* evaluate_prompt, lines 60-90, and the queue of lines 244-264 or 379-400
SharedBegin(c) ==
    /\ pc[c] = "start"
    /\ input_tokens' = [input_tokens EXCEPT
                           ![Frame(c)] = CountTokens(models[c].tokenizer, prompts[c].prompt)]
    /\ timer_start' = [timer_start EXCEPT ![Frame(c)] = now]
    /\ model_id_variants' = [model_id_variants EXCEPT
                                ![Frame(c)] = BuildVariants(models[c], region)]
    /\ vi' = [vi EXCEPT ![Frame(c)] = 1]
    /\ last_error' = [last_error EXCEPT ![Frame(c)] = NoneVal]
    /\ tried' = [tried EXCEPT ![Frame(c)] = <<>>]
    /\ pc' = [pc EXCEPT ![c] = "attempt"]
    /\ UNCHANGED <<region, models, prompts, remote, pi, mi, all_metrics, now, obs, built>>
    /\ UNCHANGED <<validator, report, driver>>

\* one remote invocation of caller c that raises, and what its variant loop
\* and its evaluate_prompt do with it
SharedAttemptFails(c) ==
    /\ pc[c] = "attempt"
    /\ \E err \in remote.errors :
          LET f == Frame(c)
              variant_id == model_id_variants[f][vi[f]]
              dec == IF UsesConverse(models[c])
                     THEN ConverseOnError(err, variant_id, model_id_variants[f])
                     ELSE DirectOnError(err, variant_id, model_id_variants[f])
              exhausted == ~dec.raise /\ vi[f] + 1 > Len(dec.queue)
              e == IF dec.raise THEN dec.last_error ELSE AllFailed(dec.last_error, dec.queue)
          IN  /\ now' = now + 1
              /\ tried' = [tried EXCEPT ![f] = Append(@, variant_id)]
              /\ model_id_variants' = [model_id_variants EXCEPT ![f] = dec.queue]
              /\ last_error' = [last_error EXCEPT ![f] = dec.last_error]
              /\ obs' = [obs EXCEPT ![c] = Append(@, [kind |-> "error", err |-> err])]
              /\ IF dec.raise \/ exhausted
                 THEN /\ all_metrics' = [all_metrics EXCEPT ![c] =
                             ErrorMetrics(models[c], prompts[c], input_tokens[f], e,
                                          Elapsed(timer_start[f], now, 1))]
                      /\ pc' = [pc EXCEPT ![c] = "done"]
                      /\ vi' = vi
                 ELSE /\ vi' = [vi EXCEPT ![f] = @ + 1]
                      /\ UNCHANGED <<all_metrics, pc>>
    /\ UNCHANGED <<region, models, prompts, remote, pi, mi, input_tokens, timer_start, built>>
    /\ UNCHANGED <<validator, report, driver>>

\* one successful invocation of caller c, and the rest of its evaluate_prompt
SharedSucceeds(c) ==
    /\ pc[c] = "attempt"
    /\ \E a \in (IF UsesConverse(models[c])
                 THEN {[kind |-> "reply", reply |-> r] : r \in remote.replies}
                 ELSE {[kind |-> "body", body |-> b, counted |-> n] :
                          b \in (IF IsMeta(models[c].provider,
                                           model_id_variants[Frame(c)][vi[Frame(c)]])
                                 THEN remote.generations ELSE remote.bodies),
                          n \in remote.counted}) :
          /\ now' = now + 1
          /\ tried' = [tried EXCEPT ![Frame(c)] =
                          Append(@, model_id_variants[Frame(c)][vi[Frame(c)]])]
          /\ obs' = [obs EXCEPT ![c] = Append(@, a)]
          /\ all_metrics' = [all_metrics EXCEPT ![c] =
                 SuccessMetrics(models[c], prompts[c], input_tokens[Frame(c)],
                     InvocationResult(models[c],
                                      model_id_variants[Frame(c)][vi[Frame(c)]], a),
                     Elapsed(timer_start[Frame(c)], now, 1))]
    /\ pc' = [pc EXCEPT ![c] = "done"]
    /\ UNCHANGED <<region, models, prompts, remote, pi, mi, input_tokens,
                   model_id_variants, vi, last_error, timer_start, built>>
    /\ UNCHANGED <<validator, report, driver>>

NextShared ==
    \E c \in Callers :
        \/ SharedBegin(c)
        \/ SharedAttemptFails(c)
        \/ SharedSucceeds(c)

SpecShared == InitShared /\ [][NextShared]_vars

\* what one call gives when nothing else runs: the variant loop applied to
\* the answers of the endpoint, in their order
RECURSIVE SequentialOutcome(_, _, _, _)
SequentialOutcome(m, queue, i, answers) ==
    IF Head(answers).kind # "error"
    THEN [returned |-> TRUE, res |-> InvocationResult(m, queue[i], Head(answers))]
    ELSE LET dec == IF UsesConverse(m)
                    THEN ConverseOnError(Head(answers).err, queue[i], queue)
                    ELSE DirectOnError(Head(answers).err, queue[i], queue)
         IN  IF dec.raise THEN [returned |-> FALSE, e |-> dec.last_error]
             ELSE IF i + 1 > Len(dec.queue)
             THEN [returned |-> FALSE, e |-> AllFailed(dec.last_error, dec.queue)]
             ELSE SequentialOutcome(m, dec.queue, i + 1, Tail(answers))

\* the record of that call, its latency left at 0
SequentialRecord(m, row, reg, answers) ==
    LET out == SequentialOutcome(m, BuildVariants(m, reg), 1, answers)
        estimate == CountTokens(m.tokenizer, row.prompt)
    IN  IF out.returned THEN SuccessMetrics(m, row, estimate, out.res, 0)
        ELSE ErrorMetrics(m, row, estimate, out.e, 0)

(***************************************************************************)
(* C22: two evaluate_prompt calls on one engine, interleaved at their      *)
(* variant attempts, return the records that the same calls return when    *)
(* run one after the other, latency (and timestamp) apart: the record of   *)
(* each call is the one its own descriptor, prompt row and answers         *)
(* determine, and the queue each call has built and walked is its own.     *)
(***************************************************************************)
C22_InterleavedAsSequential ==
    \A c \in Callers :
        /\ pc[c] = "done" =>
              [all_metrics[c] EXCEPT !.latency_ms = 0]
                  = SequentialRecord(models[c], prompts[c], region, obs[c])
        /\ pc[c] # "start" =>
              /\ Len(tried[c]) = Len(obs[c])
              /\ \A k \in DOMAIN tried[c] : tried[c][k] = model_id_variants[c][k]

\* both calls were in their variant loops at the same time, each had an
\* attempt fail after the other had begun, and both have returned, one with
\* a success record and one with an error record
C22_Witness ==
    /\ pc = <<"done", "done">>
    /\ Len(obs[1]) >= 2
    /\ Len(obs[2]) >= 2
    /\ timer_start[1] < timer_start[2]
    /\ timer_start[2] < all_metrics[1].latency_ms + timer_start[1]
    /\ all_metrics[1].status = "success"
    /\ all_metrics[2].status = "error"

====
